---- MODULE Spec2Model ----
(***************************************************************************)
(* Model of better-claw's per-user message queue (core/queue) and session  *)
(* rotation engine (core/session-manager, core/session-store, core/agent). *)
(* All state is that of ONE user: the program keys every map by userId and *)
(* never reads another user's entry.                                       *)
(***************************************************************************)
EXTENDS Integers, Sequences, FiniteSets, TLC

\* ------------------------------------------------------------------ bounds
MaxMsgs == 3        \* messages enqueued in one behaviour
MaxLoops == 2       \* processNext invocations alive at the same time
MaxTicks == 2       \* free clock advances in one behaviour
MaxRateLimits == 2  \* rate-limit failures in one behaviour

\* ------------------------------------------------------- program constants
\* Rate limit default wait when no resetsAt is known (milliseconds).
DEFAULT_RATE_LIMIT_WAIT_MS == 5 * 60 * 1000
\* Lower bound of the resume timer's delay: Math.max(resumeAt - Date.now(), 1000).
MIN_RESUME_DELAY_MS == 1000

Max(a, b) == IF a >= b THEN a ELSE b

\* ------------------------------------------------------------------- state
VARIABLES
  queue,        \* queues.get(userId): sequence of queued message ids
  processing,   \* processing.has(userId)
  pausedUntil,  \* pausedUntil entry: [set, at]
  resumeTimer,  \* resumeTimers entry: [set, fireAt, msg]
  loop,         \* the live processNext invocations: slot -> [pc, msg, resumeAt]
  now,          \* Date.now()
  ticks,        \* free clock advances taken so far
  nextMsg,      \* id of the next message to be enqueued (ids follow enqueue order)
  rateLimits,   \* rate-limit failures so far
  dispatchLog,  \* history: message ids in the order sendToAgent was called on them
  replayDue     \* history: id of the message put back by the last rate limit, 0 if none

qvars == <<queue, processing, pausedUntil, resumeTimer, loop, now, ticks,
           nextMsg, rateLimits, dispatchLog, replayDue>>

VARIABLES
  active,      \* session.json: the active session's metadata ([exists |-> FALSE] if none)
  conv,        \* sessions/<localId>/conversation.json
  arch,        \* sessions/<localId>/metadata.json: [archived, meta, summary]
  cum,         \* cumulative-summary.json: [exists, text, sessionCount]
  nextId,      \* next localId createActiveSession hands out
  bgReg,       \* bgRotations.get(userId): id of the registered record, 0 if none
  bgs,         \* every BackgroundRotation object created so far and its task
  nextBg,      \* id of the next BackgroundRotation object
  snd,         \* the running sendToAgent calls
  rot,         \* the running rotateSession calls, by owner
  sends,       \* sendToAgent calls started so far
  manuals,     \* manual rotations started so far
  nextSdk,     \* next session id the agent runtime hands out
  tally,       \* history: per session, the queries completed on it while it was active
  switchLog,   \* history: the outcomes of performInstantSwitch
  ensureLog    \* history: what each returned ensureActiveSession call did

svars == <<active, conv, arch, cum, nextId, bgReg, bgs, nextBg, snd, rot, sends,
           manuals, nextSdk, tally, switchLog, ensureLog>>

VARIABLES
  activeQuery,  \* session.activeQuery: slot of the unit of work whose query it is, 0 if null
  interrupted,  \* session.interrupted
  work,         \* per processNext slot: where its sendToAgent call stands
  stops         \* interrupt calls so far

avars == <<activeQuery, interrupted, work, stops>>

vars == <<qvars, svars, avars>>


Loops == 1..MaxLoops
NoPause == [set |-> FALSE, at |-> 0]
NoTimer == [set |-> FALSE, fireAt |-> 0, msg |-> 0]
FreeLoop == [pc |-> "free", msg |-> 0, resumeAt |-> 0]

\* The slot a new processNext invocation runs in.
HasFreeSlot(lp) == \E w \in Loops : lp[w].pc = "free"
FreeSlot(lp) == CHOOSE w \in Loops : lp[w].pc = "free" /\ \A v \in Loops : lp[v].pc = "free" => w <= v

\* Units of work in flight: processMessage is awaiting sendToAgent.
InFlight == {w \in Loops : loop[w].pc = "working"}

\* ------------------------------------------------------------------ queue
\* processNext(userId), run in slot w on queue q with pause entry pu; lp is the
\* slot table with w already released.
ProcessNext(w, q, pu, lp) ==
  IF q = <<>>
  THEN /\ processing' = FALSE
       /\ queue' = q
       /\ pausedUntil' = pu
       /\ loop' = lp
       /\ UNCHANGED <<dispatchLog, replayDue>>
  ELSE IF pu.set /\ pu.at # 0 /\ now < pu.at
  THEN /\ processing' = FALSE
       /\ queue' = q
       /\ pausedUntil' = pu
       /\ loop' = lp
       /\ UNCHANGED <<dispatchLog, replayDue>>
  ELSE /\ pausedUntil' = NoPause
       /\ processing' = TRUE
       /\ queue' = Tail(q)
       /\ loop' = [lp EXCEPT ![w] = [pc |-> "working", msg |-> Head(q), resumeAt |-> 0]]
       /\ dispatchLog' = Append(dispatchLog, Head(q))
       /\ replayDue' = 0

\* enqueue(message)
Enqueue ==
  /\ nextMsg <= MaxMsgs
  /\ nextMsg' = nextMsg + 1
  /\ IF ~processing
     THEN /\ HasFreeSlot(loop)
          /\ ProcessNext(FreeSlot(loop), Append(queue, nextMsg), pausedUntil, loop)
     ELSE /\ queue' = Append(queue, nextMsg)
          /\ UNCHANGED <<processing, pausedUntil, loop, dispatchLog, replayDue>>
  /\ UNCHANGED <<resumeTimer, now, ticks, rateLimits>>
  /\ UNCHANGED <<svars, avars>>

\* The finally block of processNext after processMessage returned false.
ContinueLoop(w) ==
  IF ~pausedUntil.set
  THEN ProcessNext(w, queue, pausedUntil, [loop EXCEPT ![w] = FreeLoop])
  ELSE /\ loop' = [loop EXCEPT ![w] = FreeLoop]
       /\ UNCHANGED <<queue, processing, pausedUntil, dispatchLog, replayDue>>

\* processMessage returns false without a reply: sendToAgent resolved, or rejected
\* with AgentInterruptedError.
Resolved(w) ==
  /\ ContinueLoop(w)
  /\ UNCHANGED <<resumeTimer, now, ticks, nextMsg, rateLimits>>

\* Mutant of Rejected: the failed message is also put back at the head of the queue.
RejectedAndRequeued(w) ==
  /\ loop' = [loop EXCEPT ![w].pc = "errNotify"]
  /\ queue' = <<loop[w].msg>> \o queue
  /\ UNCHANGED <<processing, pausedUntil, resumeTimer, now, ticks, nextMsg,
                 rateLimits, dispatchLog, replayDue>>

\* processMessage sends the generic apology reply and awaits it.
Rejected(w) ==
  /\ loop' = [loop EXCEPT ![w].pc = "errNotify"]
  /\ UNCHANGED <<queue, processing, pausedUntil, resumeTimer, now, ticks, nextMsg,
                 rateLimits, dispatchLog, replayDue>>

\* processMessage: sendToAgent resolved, or rejected with AgentInterruptedError.
FinishWork(w) ==
  /\ loop[w].pc = "working"
  /\ Resolved(w)
  /\ UNCHANGED <<svars, avars>>

\* processMessage: sendToAgent rejected with another error; the apology reply is awaited.
FailWork(w) ==
  /\ loop[w].pc = "working"
  /\ Rejected(w)
  /\ UNCHANGED <<svars, avars>>

\* The apology reply settled (resolved or rejected: both are swallowed).
ErrorNotified(w) ==
  /\ loop[w].pc = "errNotify"
  /\ ContinueLoop(w)
  /\ UNCHANGED <<resumeTimer, now, ticks, nextMsg, rateLimits>>
  /\ UNCHANGED <<svars, avars>>

\* The reset times a RateLimitError can carry: null (0 here), or a time at or after
\* the moment the limit was hit.
ResetsAtChoices == {0, now, now + 2 * MIN_RESUME_DELAY_MS}

\* processMessage puts the message back at the head of the queue and awaits the notice
\* to the user.
RateLimited(w, resetsAt) ==
  /\ rateLimits < MaxRateLimits
  /\ rateLimits' = rateLimits + 1
  /\ queue' = <<loop[w].msg>> \o queue
  /\ loop' = [loop EXCEPT ![w] =
                [pc |-> "rlNotify", msg |-> loop[w].msg,
                 resumeAt |-> IF resetsAt # 0 THEN resetsAt
                              ELSE now + DEFAULT_RATE_LIMIT_WAIT_MS]]
  /\ replayDue' = loop[w].msg
  /\ UNCHANGED <<processing, pausedUntil, resumeTimer, now, ticks, nextMsg, dispatchLog>>

\* processMessage: sendToAgent rejected with RateLimitError(resetsAt).
RateLimitWork(w, resetsAt) ==
  /\ loop[w].pc = "working"
  /\ RateLimited(w, resetsAt)
  /\ UNCHANGED <<svars, avars>>

\* Mutant of PauseAndScheduleResume: the pause is set but no resume timer is scheduled.
PauseWithoutTimer(w) ==
  /\ loop[w].pc = "rlNotify"
  /\ pausedUntil' = [set |-> TRUE, at |-> loop[w].resumeAt]
  /\ processing' = FALSE
  /\ loop' = [loop EXCEPT ![w] = FreeLoop]
  /\ UNCHANGED <<queue, resumeTimer, now, ticks, nextMsg, rateLimits, dispatchLog, replayDue>>
  /\ UNCHANGED <<svars, avars>>

\* pauseAndScheduleResume(userId, resumeAt, reply), then processNext's return.
PauseAndScheduleResume(w) ==
  /\ loop[w].pc = "rlNotify"
  /\ pausedUntil' = [set |-> TRUE, at |-> loop[w].resumeAt]
  /\ resumeTimer' = [set |-> TRUE,
                     fireAt |-> now + Max(loop[w].resumeAt - now, MIN_RESUME_DELAY_MS),
                     msg |-> loop[w].msg]
  /\ processing' = FALSE
  /\ loop' = [loop EXCEPT ![w] = FreeLoop]
  /\ UNCHANGED <<queue, now, ticks, nextMsg, rateLimits, dispatchLog, replayDue>>
  /\ UNCHANGED <<svars, avars>>

\* The resume timer's callback.
ResumeTimerFires ==
  /\ resumeTimer.set
  /\ now >= resumeTimer.fireAt
  /\ HasFreeSlot(loop)
  /\ resumeTimer' = NoTimer
  /\ ProcessNext(FreeSlot(loop), queue, NoPause, loop)
  /\ UNCHANGED <<now, ticks, nextMsg, rateLimits>>
  /\ UNCHANGED <<svars, avars>>

\* Time passes.
TickSteps == {MIN_RESUME_DELAY_MS, DEFAULT_RATE_LIMIT_WAIT_MS}

Tick(d) ==
  /\ ticks < MaxTicks
  /\ ticks' = ticks + 1
  /\ now' = now + d
  /\ UNCHANGED <<queue, processing, pausedUntil, resumeTimer, loop, nextMsg,
                 rateLimits, dispatchLog, replayDue>>
  /\ UNCHANGED <<svars, avars>>

\* Time passes until the pending resume timer is due.
TickToTimer ==
  /\ resumeTimer.set
  /\ now < resumeTimer.fireAt
  /\ now' = resumeTimer.fireAt
  /\ UNCHANGED <<queue, processing, pausedUntil, resumeTimer, loop, ticks, nextMsg,
                 rateLimits, dispatchLog, replayDue>>
  /\ UNCHANGED <<svars, avars>>

InitQ ==
  /\ queue = <<>>
  /\ processing = FALSE
  /\ pausedUntil = NoPause
  /\ resumeTimer = NoTimer
  /\ loop = [w \in Loops |-> FreeLoop]
  /\ now = 1
  /\ ticks = 0
  /\ nextMsg = 1
  /\ rateLimits = 0
  /\ dispatchLog = <<>>
  /\ replayDue = 0

NextQ ==
  \/ Enqueue
  \/ \E w \in Loops : FinishWork(w)
  \/ \E w \in Loops : FailWork(w)
  \/ \E w \in Loops : ErrorNotified(w)
  \/ \E w \in Loops : \E r \in ResetsAtChoices : RateLimitWork(w, r)
  \/ \E w \in Loops : PauseAndScheduleResume(w)
  \/ ResumeTimerFires
  \/ \E d \in TickSteps : Tick(d)
  \/ TickToTimer

\* ================================================================ sessions
\* Rotation engine (session-manager), session store and agent dispatch.

\* ------------------------------------------------------------------ bounds
MaxSessions == 4    \* sessions created in one behaviour (localIds 1..MaxSessions)
MaxBg == 2          \* background preparations started in one behaviour
MaxSends == 3       \* sendToAgent calls in one behaviour
MaxManual == 2      \* manual rotations (/new command, session_new tool) in one behaviour
MaxCmds == 1        \* /new commands running at the same time
MaxSenders == 1     \* sendToAgent calls running at the same time

\* ----------------------------------------------------------- configuration
\* session.maxRecentSessions (schema: min 1, default 3), configured to its minimum.
maxRecentSessions == 1
\* session.summaryEnabled (default).
summaryEnabled == TRUE
\* session.rotationContextRatio and session.rotationForceRatio, in percent.
rotationContextRatioPct == 80
rotationForceRatioPct == 90


Sessions == 1..MaxSessions
Bgs == 1..MaxBg
Senders == 1..MaxSenders
Cmds == (MaxSenders + 1)..(MaxSenders + MaxCmds)
Owners == Senders \union Cmds
IsCmd(o) == o > MaxSenders

NoSummary == <<"none", 0, 0>>
EmptySummary == <<"empty", 0, 0>>
\* generateSummary's result for the n conversation entries of session id.
OkSummary(id, n) == <<"ok", id, n>>
\* `[Summary generation failed] Session had ${messageCount} messages over ${totalTurns} turns.`
FallbackSummary(m) == <<"failed", m.messageCount, m.totalTurns>>

NoSession ==
  [exists |-> FALSE, localId |-> 0, sdkSessionId |-> 0, messageCount |-> 0,
   totalTurns |-> 0, totalCostUsd |-> 0, contextTokens |-> 0,
   contextWindowTokens |-> 0, carryover |-> <<>>]
\* The metadata createActiveSession writes.
FreshSession(id) == [NoSession EXCEPT !.exists = TRUE, !.localId = id]

NoArchive == [archived |-> FALSE, meta |-> NoSession, summary |-> NoSummary, writes |-> 0]
NoCum == [exists |-> FALSE, text |-> {}, sessionCount |-> 0]
NoBg == [pc |-> "none", triggerMessageCount |-> 0, oldLocalId |-> 0, summary |-> NoSummary,
         snapLen |-> 0, meta |-> NoSession, n |-> 0, text |-> {}, stale |-> FALSE,
         waiters |-> <<>>]
IdleSender == [pc |-> "idle", msg |-> 0, localId |-> 0, resume |-> 0, attempt |-> 0,
               sdkOut |-> 0, bg |-> 0, path |-> "none", archives |-> 0, creates |-> 0,
               same |-> TRUE, ready |-> TRUE]
FreeRot == [pc |-> "free", reason |-> "none", cur |-> NoSession, snapLen |-> 0,
            n |-> 0, text |-> {}]
NoTally == [n |-> 0, turns |-> 0, cost |-> 0]

\* The whole session state as one value, so that the code's sequential steps compose.
World ==
  [active |-> active, conv |-> conv, arch |-> arch, cum |-> cum, nextId |-> nextId,
   bgReg |-> bgReg, bgs |-> bgs, nextBg |-> nextBg, snd |-> snd, rot |-> rot,
   nextSdk |-> nextSdk, tally |-> tally, switchLog |-> switchLog,
   ensureLog |-> ensureLog, ok |-> TRUE]

\* The step's result W becomes the next state; W.ok is false when a bound was hit.
Becomes(W) ==
  /\ W.ok
  /\ active' = W.active /\ conv' = W.conv /\ arch' = W.arch /\ cum' = W.cum
  /\ nextId' = W.nextId /\ bgReg' = W.bgReg /\ bgs' = W.bgs /\ nextBg' = W.nextBg
  /\ snd' = W.snd /\ rot' = W.rot /\ nextSdk' = W.nextSdk /\ tally' = W.tally
  /\ switchLog' = W.switchLog /\ ensureLog' = W.ensureLog

\* ------------------------------------------------------------ session store
\* clearActiveSession then createActiveSession.
CreateActiveSession(W) ==
  IF W.nextId > MaxSessions THEN [W EXCEPT !.ok = FALSE]
  ELSE [W EXCEPT !.active = FreshSession(W.nextId),
                 !.conv[W.nextId] = <<>>,
                 !.nextId = W.nextId + 1]

\* archiveSession(userId, {...meta, endedAt, summary})
ArchiveSession(W, meta, summary) ==
  [W EXCEPT !.arch[meta.localId] =
     [archived |-> TRUE, meta |-> meta, summary |-> summary,
      writes |-> W.arch[meta.localId].writes + 1]]

\* listArchivedSessions: the archived localIds (newest first is highest id first).
ArchivedIds(W) == {i \in Sessions : W.arch[i].archived}
\* How many members of S were created after i.
NewerIn(S, i) == Cardinality({j \in S : j > i})

\* ------------------------------------------------------------ consolidation
\* Mutant of NewSummaries: every session beyond the window is merged again, whatever
\* sessionCount says.
NewSummariesOfAllOld(W) ==
  LET archived == ArchivedIds(W)
      oldSessions == {i \in archived : NewerIn(archived, i) >= maxRecentSessions}
      newSessionsToMerge == oldSessions
  IN  {i \in newSessionsToMerge : W.arch[i].summary[1] \in {"ok", "empty"}}

\* consolidateOldSessions: the summaries passed to the condenser as new, those of the
\* newest newOldCount - existingSessionCount sessions beyond the window that have a
\* summary not flagged as failed.
NewSummaries(W) ==
  LET archived == ArchivedIds(W)
      oldSessions == {i \in archived : NewerIn(archived, i) >= maxRecentSessions}
      existingSessionCount == IF W.cum.exists THEN W.cum.sessionCount ELSE 0
      newOldCount == Cardinality(oldSessions)
      newSessionsToMerge ==
        {i \in oldSessions : NewerIn(oldSessions, i) < newOldCount - existingSessionCount}
  IN  {i \in newSessionsToMerge : W.arch[i].summary[1] \in {"ok", "empty"}}

\* consolidateOldSessions up to its only await. Returns what to do next:
\* wait = TRUE when the condenser is called (n and text are what is written when it
\* returns), otherwise W already holds the function's whole effect.
ConsolidatePrefix(W) ==
  LET archived == ArchivedIds(W)
      oldSessions == {i \in archived : NewerIn(archived, i) >= maxRecentSessions}
      existingSessionCount == IF W.cum.exists THEN W.cum.sessionCount ELSE 0
      newOldCount == Cardinality(oldSessions)
      newSummaries == NewSummaries(W)
      existingText == IF W.cum.exists THEN W.cum.text ELSE {}
  IN  IF Cardinality(archived) <= maxRecentSessions
        THEN [wait |-> FALSE, W |-> W, n |-> 0, text |-> {}]
      ELSE IF newOldCount <= existingSessionCount
        THEN [wait |-> FALSE, W |-> W, n |-> 0, text |-> {}]
      ELSE IF newSummaries = {} /\ existingText = {}
        THEN [wait |-> FALSE,
              W |-> [W EXCEPT !.cum = [exists |-> TRUE, text |-> {},
                                       sessionCount |-> newOldCount]],
              n |-> 0, text |-> {}]
      ELSE [wait |-> TRUE, W |-> W, n |-> newOldCount,
            text |-> existingText \union newSummaries]

\* Mutant of ConsolidateWrite: the text is written, sessionCount is left as it was.
ConsolidateWriteTextOnly(W, n, text) ==
  [W EXCEPT !.cum = [exists |-> TRUE, text |-> text, sessionCount |-> W.cum.sessionCount]]

\* consolidateOldSessions after condenseCumulativeSummary returned.
ConsolidateWrite(W, n, text) ==
  [W EXCEPT !.cum = [exists |-> TRUE, text |-> text, sessionCount |-> n]]

\* One whole call of consolidateOldSessions whose condenser call, if any, succeeds.
ConsolidateOldSessions(W) ==
  LET c == ConsolidatePrefix(W)
  IN  IF c.wait THEN ConsolidateWrite(c.W, c.n, c.text) ELSE c.W

\* ------------------------------------------------------------------- agent
\* sendToAgent from the return of ensureActiveSession to the start of the query:
\* the query resumes the session's sdkSessionId unless the call rotated.
BeginQuery(W, s, session, rotated) ==
  LET resume == IF rotated THEN 0 ELSE session.sdkSessionId
      me == W.snd[s]
  IN  [W EXCEPT
        !.snd[s] = [me EXCEPT !.pc = "query", !.localId = session.localId,
                              !.resume = resume, !.attempt = 1,
                              !.sdkOut = IF resume # 0 THEN resume ELSE W.nextSdk,
                              !.bg = 0],
        !.nextSdk = IF resume # 0 THEN W.nextSdk ELSE W.nextSdk + 1,
        !.ensureLog = IF ~rotated THEN W.ensureLog ELSE W.ensureLog \union
           {[path |-> me.path, archives |-> me.archives, creates |-> me.creates,
             same |-> me.same, ready |-> me.ready, contextTokens |-> session.contextTokens]}]

\* ---------------------------------------------------------------- rotation
\* What the caller of rotateSession does with the new session.
RotateReturn(W, o) ==
  LET W1 == [W EXCEPT !.rot[o] = FreeRot]
  IN  IF IsCmd(o) THEN W1
      ELSE IF W1.snd[o].pc = "rotating" THEN BeginQuery(W1, o, W1.active, TRUE)
      ELSE [W1 EXCEPT !.snd[o].pc = "query"]

\* rotateSession: clearActiveSession, createActiveSession, return. A manual
\* rotation that completes marks every background prep still in flight as stale.
RotateFinish(W, o) ==
  LET W1 == CreateActiveSession(W)
      W2 == IF W.rot[o].reason = "manual"
            THEN [W1 EXCEPT !.bgs = [b \in Bgs |->
                     IF W1.bgs[b].pc \in {"summ", "cons"}
                     THEN [W1.bgs[b] EXCEPT !.stale = TRUE] ELSE W1.bgs[b]]]
            ELSE W1
      W3 == IF IsCmd(o) THEN W2 ELSE [W2 EXCEPT !.snd[o].creates = @ + 1]
  IN  RotateReturn(W3, o)

\* rotateSession from consolidateOldSessions on.
RotateConsolidate(W, o) ==
  LET c == ConsolidatePrefix(W)
  IN  IF c.wait
      THEN [c.W EXCEPT !.rot[o].pc = "cons", !.rot[o].n = c.n, !.rot[o].text = c.text]
      ELSE RotateFinish(c.W, o)

\* rotateSession: archive the session read at the start with the summary.
RotateArchive(W, o, summary) ==
  LET W1 == ArchiveSession(W, W.rot[o].cur, summary)
      W2 == IF IsCmd(o) THEN W1 ELSE [W1 EXCEPT !.snd[o].archives = @ + 1]
  IN  RotateConsolidate(W2, o)

\* Mutant of RotateSession: the sdkSessionId test is missing.
RotateSessionAnySession(W, o, reason) ==
  LET currentSession == W.active
      W1 == [W EXCEPT !.bgReg = 0,
                      !.rot[o] = [FreeRot EXCEPT !.reason = reason,
                                                 !.cur = currentSession]]
  IN  IF currentSession.exists
      THEN IF ~summaryEnabled THEN RotateArchive(W1, o, NoSummary)
           ELSE IF W1.conv[currentSession.localId] = <<>>
                THEN RotateArchive(W1, o, EmptySummary)
           ELSE [W1 EXCEPT !.rot[o].pc = "summ",
                           !.rot[o].snapLen = Len(W1.conv[currentSession.localId])]
      ELSE RotateConsolidate(W1, o)

\* rotateSession(userId, reason) up to its first await.
RotateSession(W, o, reason) ==
  LET currentSession == W.active
      W1 == [W EXCEPT !.bgReg = 0,
                      !.rot[o] = [FreeRot EXCEPT !.reason = reason,
                                                 !.cur = currentSession]]
  IN  IF currentSession.exists /\ currentSession.sdkSessionId # 0
      THEN IF ~summaryEnabled THEN RotateArchive(W1, o, NoSummary)
           ELSE IF W1.conv[currentSession.localId] = <<>>
                THEN RotateArchive(W1, o, EmptySummary)
           ELSE [W1 EXCEPT !.rot[o].pc = "summ",
                           !.rot[o].snapLen = Len(W1.conv[currentSession.localId])]
      ELSE RotateConsolidate(W1, o)

\* ------------------------------------------------------- background prep
\* Mutant of Carryover: the slice starts at triggerMessageCount, not at twice it.
CarryoverFromCount(allConversations, triggerMessageCount) ==
  SubSeq(allConversations, triggerMessageCount + 1, Len(allConversations))

\* Mutant of Carryover: only user entries are kept.
CarryoverUserOnly(allConversations, triggerMessageCount) ==
  LET intermediateEntries ==
        SubSeq(allConversations, triggerMessageCount * 2 + 1, Len(allConversations))
      IsDialogue(e) == e.role \in {"user"}
  IN  SelectSeq(intermediateEntries, IsDialogue)

\* performInstantSwitch: the carryover is the log from index triggerMessageCount * 2
\* on (slice), filtered to roles user and assistant.
Carryover(allConversations, triggerMessageCount) ==
  LET intermediateEntries ==
        SubSeq(allConversations, triggerMessageCount * 2 + 1, Len(allConversations))
      IsDialogue(e) == e.role \in {"user", "assistant"}
  IN  SelectSeq(intermediateEntries, IsDialogue)

\* Mutant of PerformInstantSwitch: the oldLocalId guard is missing.
PerformInstantSwitchUnguarded(W, b) ==
  LET bg == W.bgs[b]
      W1 == ArchiveSession(W, W.active, bg.summary)
      W2 == [CreateActiveSession(W1) EXCEPT !.bgReg = 0]
  IN  [W2 EXCEPT !.switchLog = W.switchLog \union
         {[bg |-> b, stale |-> bg.stale, outcome |-> "switched",
           archived |-> W2.arch # W.arch, replaced |-> W2.active # W.active]}]

\* Mutant of PerformInstantSwitch: after a switch the record stays registered.
PerformInstantSwitchKeepsRecord(W, b) ==
  LET bg == W.bgs[b]
      currentSession == W.active
      allConversations == W.conv[currentSession.localId]
      carryover == Carryover(allConversations, bg.triggerMessageCount)
      W1 == ArchiveSession(W, currentSession, bg.summary)
      W2 == CreateActiveSession(W1)
      W3 == [W2 EXCEPT !.active.carryover = carryover]
      Outcome(V, kind) ==
        [V EXCEPT !.switchLog = W.switchLog \union
           {[bg |-> b, stale |-> bg.stale, outcome |-> kind,
             archived |-> V.arch # W.arch, replaced |-> V.active # W.active]}]
  IN  IF ~currentSession.exists
        THEN Outcome(CreateActiveSession([W EXCEPT !.bgReg = 0]), "discarded")
      ELSE IF currentSession.localId # bg.oldLocalId
        THEN Outcome([W EXCEPT !.bgReg = 0], "discarded")
      ELSE Outcome(W3, "switched")

\* performInstantSwitch(userId, bg); the session it returns is the active one.
PerformInstantSwitch(W, b) ==
  LET bg == W.bgs[b]
      currentSession == W.active
      allConversations == W.conv[currentSession.localId]
      carryover == Carryover(allConversations, bg.triggerMessageCount)
      W1 == ArchiveSession(W, currentSession, bg.summary)
      W2 == CreateActiveSession(W1)
      W3 == [W2 EXCEPT !.active.carryover = carryover, !.bgReg = 0]
      Outcome(V, kind) ==
        [V EXCEPT !.switchLog = W.switchLog \union
           {[bg |-> b, stale |-> bg.stale, outcome |-> kind,
             archived |-> V.arch # W.arch, replaced |-> V.active # W.active]}]
  IN  IF ~currentSession.exists
        THEN Outcome(CreateActiveSession([W EXCEPT !.bgReg = 0]), "discarded")
      ELSE IF currentSession.localId # bg.oldLocalId
        THEN Outcome([W EXCEPT !.bgReg = 0], "discarded")
      ELSE Outcome(W3, "switched")

\* The continuation of an ensureActiveSession call that awaited bg.promise.
ResumeWaiter(W, s) ==
  IF W.snd[s].pc = "awaitBgTimeout"
  THEN RotateSession([W EXCEPT !.bgReg = 0, !.snd[s].pc = "rotating"], s, "timeout")
  ELSE LET V == PerformInstantSwitch(W, W.snd[s].bg)
           V1 == [V EXCEPT !.snd[s].ready = W.bgs[W.snd[s].bg].pc = "done",
                           !.snd[s].same = W.active.exists /\
                              W.active.localId = W.bgs[W.snd[s].bg].oldLocalId,
                           !.snd[s].archives = IF V.arch # W.arch THEN 1 ELSE 0,
                           !.snd[s].creates = IF V.nextId # W.nextId THEN 1 ELSE 0]
       IN  BeginQuery(V1, s, V1.active, TRUE)

\* The callers awaiting bg.promise continue in the order they started to wait.
RECURSIVE ResumeWaiters(_, _)
ResumeWaiters(W, waiters) ==
  IF waiters = <<>> \/ ~W.ok THEN W
  ELSE ResumeWaiters(ResumeWaiter(W, Head(waiters)), Tail(waiters))

\* The background task ends: bg.state = 'ready' and bg.promise resolves.
BgReady(W, b) ==
  ResumeWaiters([W EXCEPT !.bgs[b].pc = "done", !.bgs[b].waiters = <<>>],
                W.bgs[b].waiters)

\* Mutant of BgFallback: the catch block lets the failure through, the task ends
\* without reaching state ready and without resolving its promise.
BgFallbackRejects(W, b) ==
  [W EXCEPT !.bgs[b].summary = FallbackSummary(W.bgs[b].meta), !.bgs[b].pc = "failed"]

\* The background task's catch block.
BgFallback(W, b) ==
  BgReady([W EXCEPT !.bgs[b].summary = FallbackSummary(W.bgs[b].meta)], b)

\* The background task from `bg.summary = summary` on.
BgAfterSummary(W, b, summary) ==
  LET c == ConsolidatePrefix([W EXCEPT !.bgs[b].summary = summary])
  IN  IF c.wait
      THEN [c.W EXCEPT !.bgs[b].pc = "cons", !.bgs[b].n = c.n, !.bgs[b].text = c.text]
      ELSE BgReady(c.W, b)

\* startBackgroundPrep(userId, session)
StartBackgroundPrep(W, session) ==
  LET b == W.nextBg
      conversation == W.conv[session.localId]
      W1 == [W EXCEPT !.nextBg = b + 1,
                      !.bgs[b] = [NoBg EXCEPT !.pc = "summ",
                                              !.triggerMessageCount = session.messageCount,
                                              !.oldLocalId = session.localId,
                                              !.meta = session,
                                              !.snapLen = Len(conversation)]]
      W2 == IF ~summaryEnabled THEN BgAfterSummary(W1, b, NoSummary)
            ELSE IF conversation = <<>> THEN BgAfterSummary(W1, b, EmptySummary)
            ELSE W1
  IN  IF b > MaxBg THEN [W EXCEPT !.ok = FALSE]
      ELSE [W2 EXCEPT !.bgReg = b]

\* -------------------------------------------------------- ensureActiveSession
AtOrAbove(session, pct) ==
  session.contextTokens * 100 >= session.contextWindowTokens * pct

\* Mutant of EnsureActiveSession: at the force threshold it switches at once instead
\* of awaiting a background prep that is still preparing.
EnsureActiveSessionNoWait(W, s, timedOut) ==
  LET session == W.active
      bg == W.bgReg
      Path(p) == [W EXCEPT !.snd[s].path = p]
  IN  IF ~session.exists
        THEN LET V == CreateActiveSession(Path("create"))
             IN  BeginQuery([V EXCEPT !.snd[s].creates = 1], s, V.active, FALSE)
      ELSE IF session.sdkSessionId = 0
        THEN BeginQuery(Path("fresh"), s, session, FALSE)
      ELSE IF timedOut
        THEN IF bg # 0 /\ W.bgs[bg].pc # "done"
             THEN [Path("timeout") EXCEPT !.snd[s].pc = "awaitBgTimeout",
                                          !.snd[s].bg = bg,
                                          !.bgs[bg].waiters = Append(@, s)]
             ELSE ResumeWaiter([Path("timeout") EXCEPT !.snd[s].pc = "awaitBgTimeout"], s)
      ELSE IF session.contextWindowTokens <= 0
        THEN BeginQuery(Path("unknownWindow"), s, session, FALSE)
      ELSE IF bg # 0 /\ W.bgs[bg].pc = "done"
        THEN ResumeWaiter([Path("instant") EXCEPT !.snd[s].pc = "awaitBgForce",
                                                  !.snd[s].bg = bg], s)
      ELSE IF bg # 0
        THEN IF AtOrAbove(session, rotationForceRatioPct)
             THEN ResumeWaiter([Path("forceWait") EXCEPT !.snd[s].pc = "awaitBgForce",
                                                         !.snd[s].bg = bg], s)
             ELSE BeginQuery(Path("preparing"), s, session, FALSE)
      ELSE IF AtOrAbove(session, rotationForceRatioPct)
        THEN RotateSession([Path("forceSync") EXCEPT !.snd[s].pc = "rotating"], s,
                           "max_context")
      ELSE IF AtOrAbove(session, rotationContextRatioPct)
        THEN BeginQuery(StartBackgroundPrep(Path("soft"), session), s, session, FALSE)
      ELSE BeginQuery(Path("below"), s, session, FALSE)

\* Mutant of EnsureActiveSession: the test for a missing sdkSessionId is gone.
EnsureActiveSessionNoFreshTest(W, s, timedOut) ==
  LET session == W.active
      bg == W.bgReg
      Path(p) == [W EXCEPT !.snd[s].path = p]
  IN  IF ~session.exists
        THEN LET V == CreateActiveSession(Path("create"))
             IN  BeginQuery([V EXCEPT !.snd[s].creates = 1], s, V.active, FALSE)
      ELSE IF timedOut
        THEN IF bg # 0 /\ W.bgs[bg].pc # "done"
             THEN [Path("timeout") EXCEPT !.snd[s].pc = "awaitBgTimeout",
                                          !.snd[s].bg = bg,
                                          !.bgs[bg].waiters = Append(@, s)]
             ELSE ResumeWaiter([Path("timeout") EXCEPT !.snd[s].pc = "awaitBgTimeout"], s)
      ELSE IF session.contextWindowTokens <= 0
        THEN BeginQuery(Path("unknownWindow"), s, session, FALSE)
      ELSE IF bg # 0 /\ W.bgs[bg].pc = "done"
        THEN ResumeWaiter([Path("instant") EXCEPT !.snd[s].pc = "awaitBgForce",
                                                  !.snd[s].bg = bg], s)
      ELSE IF bg # 0
        THEN IF AtOrAbove(session, rotationForceRatioPct)
             THEN [Path("forceWait") EXCEPT !.snd[s].pc = "awaitBgForce",
                                            !.snd[s].bg = bg,
                                            !.bgs[bg].waiters = Append(@, s)]
             ELSE BeginQuery(Path("preparing"), s, session, FALSE)
      ELSE IF AtOrAbove(session, rotationForceRatioPct)
        THEN RotateSession([Path("forceSync") EXCEPT !.snd[s].pc = "rotating"], s,
                           "max_context")
      ELSE IF AtOrAbove(session, rotationContextRatioPct)
        THEN BeginQuery(StartBackgroundPrep(Path("soft"), session), s, session, FALSE)
      ELSE BeginQuery(Path("below"), s, session, FALSE)

\* Mutant of EnsureActiveSession: at the soft threshold it rotates synchronously
\* instead of starting a background prep.
EnsureActiveSessionRotatesAtSoft(W, s, timedOut) ==
  LET session == W.active
      bg == W.bgReg
      Path(p) == [W EXCEPT !.snd[s].path = p]
  IN  IF ~session.exists
        THEN LET V == CreateActiveSession(Path("create"))
             IN  BeginQuery([V EXCEPT !.snd[s].creates = 1], s, V.active, FALSE)
      ELSE IF session.sdkSessionId = 0
        THEN BeginQuery(Path("fresh"), s, session, FALSE)
      ELSE IF timedOut
        THEN IF bg # 0 /\ W.bgs[bg].pc # "done"
             THEN [Path("timeout") EXCEPT !.snd[s].pc = "awaitBgTimeout",
                                          !.snd[s].bg = bg,
                                          !.bgs[bg].waiters = Append(@, s)]
             ELSE ResumeWaiter([Path("timeout") EXCEPT !.snd[s].pc = "awaitBgTimeout"], s)
      ELSE IF session.contextWindowTokens <= 0
        THEN BeginQuery(Path("unknownWindow"), s, session, FALSE)
      ELSE IF bg # 0 /\ W.bgs[bg].pc = "done"
        THEN ResumeWaiter([Path("instant") EXCEPT !.snd[s].pc = "awaitBgForce",
                                                  !.snd[s].bg = bg], s)
      ELSE IF bg # 0
        THEN IF AtOrAbove(session, rotationForceRatioPct)
             THEN [Path("forceWait") EXCEPT !.snd[s].pc = "awaitBgForce",
                                            !.snd[s].bg = bg,
                                            !.bgs[bg].waiters = Append(@, s)]
             ELSE BeginQuery(Path("preparing"), s, session, FALSE)
      ELSE IF AtOrAbove(session, rotationForceRatioPct)
        THEN RotateSession([Path("forceSync") EXCEPT !.snd[s].pc = "rotating"], s,
                           "max_context")
      ELSE IF AtOrAbove(session, rotationContextRatioPct)
        THEN RotateSession([Path("soft") EXCEPT !.snd[s].pc = "rotating"], s,
                           "max_context")
      ELSE BeginQuery(Path("below"), s, session, FALSE)

\* ensureActiveSession(userId) up to its first await, or, when it returns without
\* awaiting, up to the start of the query in sendToAgent. timedOut is the outcome
\* of the idle-time test against rotationTimeoutHours.
EnsureActiveSession(W, s, timedOut) ==
  LET session == W.active
      bg == W.bgReg
      Path(p) == [W EXCEPT !.snd[s].path = p]
  IN  IF ~session.exists
        THEN LET V == CreateActiveSession(Path("create"))
             IN  BeginQuery([V EXCEPT !.snd[s].creates = 1], s, V.active, FALSE)
      ELSE IF session.sdkSessionId = 0
        THEN BeginQuery(Path("fresh"), s, session, FALSE)
      ELSE IF timedOut
        THEN IF bg # 0 /\ W.bgs[bg].pc # "done"
             THEN [Path("timeout") EXCEPT !.snd[s].pc = "awaitBgTimeout",
                                          !.snd[s].bg = bg,
                                          !.bgs[bg].waiters = Append(@, s)]
             ELSE ResumeWaiter([Path("timeout") EXCEPT !.snd[s].pc = "awaitBgTimeout"], s)
      ELSE IF session.contextWindowTokens <= 0
        THEN BeginQuery(Path("unknownWindow"), s, session, FALSE)
      ELSE IF bg # 0 /\ W.bgs[bg].pc = "done"
        THEN ResumeWaiter([Path("instant") EXCEPT !.snd[s].pc = "awaitBgForce",
                                                  !.snd[s].bg = bg], s)
      ELSE IF bg # 0
        THEN IF AtOrAbove(session, rotationForceRatioPct)
             THEN [Path("forceWait") EXCEPT !.snd[s].pc = "awaitBgForce",
                                            !.snd[s].bg = bg,
                                            !.bgs[bg].waiters = Append(@, s)]
             ELSE BeginQuery(Path("preparing"), s, session, FALSE)
      ELSE IF AtOrAbove(session, rotationForceRatioPct)
        THEN RotateSession([Path("forceSync") EXCEPT !.snd[s].pc = "rotating"], s,
                           "max_context")
      ELSE IF AtOrAbove(session, rotationContextRatioPct)
        THEN BeginQuery(StartBackgroundPrep(Path("soft"), session), s, session, FALSE)
      ELSE BeginQuery(Path("below"), s, session, FALSE)

\* Mutant of UpdateSessionAfterQuery: the carryover is not deleted.
UpdateSessionAfterQueryKeepsCarryover(W, localSessionId, q, res) ==
  LET entries == <<[role |-> "user", q |-> q], [role |-> "assistant", q |-> q]>>
      W1 == [W EXCEPT !.conv[localSessionId] = @ \o entries]
      session == W1.active
  IN  IF session.exists /\ session.localId = localSessionId
      THEN [W1 EXCEPT
             !.active.messageCount = @ + 1,
             !.active.totalTurns = @ + res.turns,
             !.active.totalCostUsd = @ + res.costUsd,
             !.active.contextTokens =
                IF res.contextTokens # 0 THEN res.contextTokens ELSE @,
             !.active.contextWindowTokens =
                IF res.contextWindowTokens # 0 THEN res.contextWindowTokens ELSE @]
      ELSE W1

\* Mutant of UpdateSessionAfterQuery: the localId guard is missing.
UpdateActiveSessionAfterQuery(W, localSessionId, q, res) ==
  [W EXCEPT !.conv[localSessionId] =
               @ \o <<[role |-> "user", q |-> q], [role |-> "assistant", q |-> q]>>,
            !.active.messageCount = @ + 1,
            !.active.totalTurns = @ + res.turns,
            !.active.totalCostUsd = @ + res.costUsd,
            !.active.contextTokens = res.contextTokens,
            !.active.contextWindowTokens = res.contextWindowTokens,
            !.active.carryover = <<>>]

\* updateSessionAfterQuery(userId, localSessionId, userMessage, assistantResponse,
\* resultMeta): q identifies the message, res carries the result's figures.
UpdateSessionAfterQuery(W, localSessionId, q, res) ==
  LET entries == <<[role |-> "user", q |-> q], [role |-> "assistant", q |-> q]>>
      W1 == [W EXCEPT !.conv[localSessionId] = @ \o entries]
      session == W1.active
  IN  IF session.exists /\ session.localId = localSessionId
      THEN [W1 EXCEPT
             !.active.messageCount = @ + 1,
             !.active.totalTurns = @ + res.turns,
             !.active.totalCostUsd = @ + res.costUsd,
             !.active.contextTokens =
                IF res.contextTokens # 0 THEN res.contextTokens ELSE @,
             !.active.contextWindowTokens =
                IF res.contextWindowTokens # 0 THEN res.contextWindowTokens ELSE @,
             !.active.carryover = <<>>]
      ELSE W1

\* executeQuery: a streamed message carries session_id; it is stored on whatever
\* session is active.
CaptureSessionId(W, s) ==
  IF W.active.exists THEN [W EXCEPT !.active.sdkSessionId = W.snd[s].sdkOut] ELSE W

\* The figures a result message can carry: input tokens of the last assistant
\* message, the model's context window, num_turns and total_cost_usd.
Results ==
  { [contextTokens |-> 50, contextWindowTokens |-> 100, turns |-> 1, costUsd |-> 2],
    [contextTokens |-> 85, contextWindowTokens |-> 100, turns |-> 2, costUsd |-> 1],
    [contextTokens |-> 95, contextWindowTokens |-> 100, turns |-> 1, costUsd |-> 2] }

\* ------------------------------------------------------------------ actions
\* sendToAgent(userId, message) is called (by the queue's processMessage).
StartSend(s, timedOut) ==
  /\ snd[s].pc = "idle"
  /\ \A r \in Senders : snd[r].pc = "idle" => s <= r
  /\ sends < MaxSends
  /\ sends' = sends + 1
  /\ Becomes(EnsureActiveSession(
       [World EXCEPT !.snd[s] = [IdleSender EXCEPT !.msg = sends + 1]], s, timedOut))
  /\ UNCHANGED <<manuals, qvars, avars>>

\* The query streams a message before its result.
QuerySessionId(s) ==
  /\ snd[s].pc = "query"
  /\ active.exists
  /\ active.sdkSessionId # snd[s].sdkOut
  /\ Becomes(CaptureSessionId(World, s))
  /\ UNCHANGED <<sends, manuals, qvars, avars>>

\* The agent calls the session_new tool during the query.
QueryToolSessionNew(s) ==
  /\ snd[s].pc = "query"
  /\ manuals < MaxManual
  /\ active.exists
  /\ active.sdkSessionId # 0
  /\ manuals' = manuals + 1
  /\ Becomes(RotateSession([World EXCEPT !.snd[s].pc = "toolRotate"], s, "manual"))
  /\ UNCHANGED <<sends, qvars, avars>>

\* Mutant of QueryResult: the entries go to the session active at completion.
QueryResultOnActive(s, res) ==
  /\ snd[s].pc = "query"
  /\ Becomes([UpdateSessionAfterQuery(CaptureSessionId(World, s), active.localId,
                                      snd[s].msg, res)
               EXCEPT !.snd[s] = IdleSender])
  /\ UNCHANGED <<sends, manuals, qvars, avars>>

\* The query ends with a result message; sendToAgent runs to its end.
QueryResult(s, res) ==
  /\ snd[s].pc = "query"
  /\ LET W1 == CaptureSessionId(World, s)
         W2 == UpdateSessionAfterQuery(W1, snd[s].localId, snd[s].msg, res)
         id == snd[s].localId
         W3 == IF active.exists /\ active.localId = id
               THEN [W2 EXCEPT !.tally[id] = [n |-> @.n + 1,
                                              turns |-> @.turns + res.turns,
                                              cost |-> @.cost + res.costUsd]]
               ELSE W2
     IN  Becomes([W3 EXCEPT !.snd[s] = IdleSender])
  /\ UNCHANGED <<sends, manuals, qvars, avars>>

\* Mutant of QueryFails: the retry resumes the same session id again.
QueryFailsRetryResumes(s) ==
  /\ snd[s].pc = "query"
  /\ IF snd[s].resume # 0
     THEN Becomes([World EXCEPT
            !.active.sdkSessionId = IF active.exists THEN 0 ELSE @,
            !.snd[s].attempt = 2])
     ELSE Becomes([World EXCEPT !.snd[s] = IdleSender])
  /\ UNCHANGED <<sends, manuals, qvars, avars>>

\* The query fails with an error other than an interruption: retried once without
\* resume if it was resuming, otherwise sendToAgent rejects.
QueryFails(s) ==
  /\ snd[s].pc = "query"
  /\ IF snd[s].resume # 0
     THEN Becomes([World EXCEPT
            !.active.sdkSessionId = IF active.exists THEN 0 ELSE @,
            !.snd[s].resume = 0, !.snd[s].attempt = 2,
            !.snd[s].sdkOut = nextSdk, !.nextSdk = nextSdk + 1])
     ELSE Becomes([World EXCEPT !.snd[s] = IdleSender])
  /\ UNCHANGED <<sends, manuals, qvars, avars>>

\* Mutant of QueryInterrupted: the interrupted message is recorded before the call
\* rejects.
QueryInterruptedRecords(s) ==
  /\ snd[s].pc = "query"
  /\ Becomes([World EXCEPT !.conv[snd[s].localId] = @ \o <<[role |-> "user", q |-> snd[s].msg]>>,
                           !.snd[s] = IdleSender])
  /\ UNCHANGED <<sends, manuals, qvars, avars>>

\* The query was interrupted and ends without a result: AgentInterruptedError.
QueryInterrupted(s) ==
  /\ snd[s].pc = "query"
  /\ Becomes([World EXCEPT !.snd[s] = IdleSender])
  /\ UNCHANGED <<sends, manuals, qvars, avars>>

\* handleMessage: the /new command (it does not go through the queue).
NewCommand(c) ==
  /\ rot[c].pc = "free"
  /\ manuals < MaxManual
  /\ manuals' = manuals + 1
  /\ Becomes(RotateSession(World, c, "manual"))
  /\ UNCHANGED <<sends, qvars, avars>>

\* rotateSession: generateSummary returned.
RotSummaryDone(o) ==
  /\ rot[o].pc = "summ"
  /\ Becomes(RotateArchive(World, o, OkSummary(rot[o].cur.localId, rot[o].snapLen)))
  /\ UNCHANGED <<sends, manuals, qvars, avars>>

\* Mutant of RotSummaryFail: the summarizer's error ends the rotation and its caller.
RotSummaryFailAborts(o) ==
  /\ rot[o].pc = "summ"
  /\ Becomes([World EXCEPT !.rot[o] = FreeRot,
                           !.snd = IF IsCmd(o) THEN @ ELSE [@ EXCEPT ![o] = IdleSender]])
  /\ UNCHANGED <<sends, manuals, qvars, avars>>

\* rotateSession: generateSummary threw.
RotSummaryFail(o) ==
  /\ rot[o].pc = "summ"
  /\ Becomes(RotateArchive(World, o, FallbackSummary(rot[o].cur)))
  /\ UNCHANGED <<sends, manuals, qvars, avars>>

\* rotateSession: consolidateOldSessions' condenser call returned.
RotCondenseDone(o) ==
  /\ rot[o].pc = "cons"
  /\ Becomes(RotateFinish(ConsolidateWrite(World, rot[o].n, rot[o].text), o))
  /\ UNCHANGED <<sends, manuals, qvars, avars>>

\* rotateSession: consolidateOldSessions threw; the error is logged.
RotCondenseFail(o) ==
  /\ rot[o].pc = "cons"
  /\ Becomes(RotateFinish(World, o))
  /\ UNCHANGED <<sends, manuals, qvars, avars>>

\* Background task: generateSummary returned.
BgSummaryDone(b) ==
  /\ bgs[b].pc = "summ"
  /\ Becomes(BgAfterSummary(World, b, OkSummary(bgs[b].oldLocalId, bgs[b].snapLen)))
  /\ UNCHANGED <<sends, manuals, qvars, avars>>

\* Background task: generateSummary threw.
BgSummaryFail(b) ==
  /\ bgs[b].pc = "summ"
  /\ Becomes(BgFallback(World, b))
  /\ UNCHANGED <<sends, manuals, qvars, avars>>

\* Background task: the condenser call returned.
BgCondenseDone(b) ==
  /\ bgs[b].pc = "cons"
  /\ Becomes(BgReady(ConsolidateWrite(World, bgs[b].n, bgs[b].text), b))
  /\ UNCHANGED <<sends, manuals, qvars, avars>>

\* Background task: the condenser call threw.
BgCondenseFail(b) ==
  /\ bgs[b].pc = "cons"
  /\ Becomes(BgFallback(World, b))
  /\ UNCHANGED <<sends, manuals, qvars, avars>>

\* ================================================================ dispatch
\* A unit of work in detail: processMessage awaiting sendToAgent, the agent query's
\* stream, and the /stop command's interrupt.
MaxStops == 2       \* interrupt calls in one behaviour
MaxHits == 1        \* rate-limit rejections in one behaviour of the detailed queue

\* stage: "none" (sendToAgent not entered), "ensure" (awaiting ensureActiveSession),
\* "stream" (executeQuery iterating the query's messages).  resume: options.resume is
\* set.  result, hitRateLimit: executeQuery's locals.  killed: interrupt() was called
\* on the query.  stopped, late: history, an interrupt was called while the unit was in
\* flight and had no result yet; a query was started for it after that.
NoWork == [stage |-> "none", resume |-> FALSE, result |-> FALSE, hitRateLimit |-> FALSE,
           killed |-> FALSE, stopped |-> FALSE, late |-> FALSE]

\* A dispatched message whose sendToAgent call has not run its synchronous prefix yet:
\* processNext calls it in the same turn, so no other handler sees this state.
Pending == \E w \in Loops : loop[w].pc = "working" /\ work[w].stage = "none"
Settled == ~Pending

\* executeQuery(options) up to its first await: the query is created and registered.
ExecuteQuery(wk, w, resume) ==
  [wk EXCEPT ![w] = [@ EXCEPT !.stage = "stream", !.resume = resume, !.result = FALSE,
                              !.hitRateLimit = FALSE, !.killed = FALSE,
                              !.late = @ \/ wk[w].stopped]]

\* sendToAgent(userId, text) called by processMessage: ensureActiveSession either
\* returns in the same turn or awaits the summarizer or a background prep (waits);
\* a rotated session is never resumed.
SendToAgent(w, waits, resume) ==
  /\ loop[w].pc = "working"
  /\ work[w].stage = "none"
  /\ ~(waits /\ resume)
  /\ IF waits
     THEN /\ work' = [work EXCEPT ![w] = [NoWork EXCEPT !.stage = "ensure"]]
          /\ UNCHANGED <<activeQuery, interrupted>>
     ELSE /\ work' = ExecuteQuery([work EXCEPT ![w] = NoWork], w, resume)
          /\ activeQuery' = w
          /\ interrupted' = FALSE
  /\ UNCHANGED <<stops, qvars, svars>>

\* ensureActiveSession resolved: the interrupted flag is reset and the query starts.
EnsureReturns(w) ==
  /\ work[w].stage = "ensure"
  /\ work' = ExecuteQuery(work, w, FALSE)
  /\ activeQuery' = w
  /\ interrupted' = FALSE
  /\ UNCHANGED <<stops, qvars, svars>>

\* The stream yields an assistant message carrying the rate_limit error mark.
StreamRateLimit(w) ==
  /\ work[w].stage = "stream"
  /\ ~work[w].killed /\ ~work[w].result /\ ~work[w].hitRateLimit
  /\ rateLimits + Cardinality({v \in Loops : work[v].hitRateLimit}) < MaxHits
  /\ work' = [work EXCEPT ![w].hitRateLimit = TRUE]
  /\ UNCHANGED <<activeQuery, interrupted, stops, qvars, svars>>

\* The stream yields the result message.
StreamResult(w) ==
  /\ work[w].stage = "stream"
  /\ ~work[w].killed /\ ~work[w].result
  /\ work' = [work EXCEPT ![w].result = TRUE]
  /\ UNCHANGED <<activeQuery, interrupted, stops, qvars, svars>>

\* How executeQuery ends once the stream is over.
QueryOutcome(w) ==
  IF ~work[w].result THEN (IF interrupted THEN "interrupted" ELSE "error")
  ELSE IF work[w].hitRateLimit THEN "ratelimit"
  ELSE "ok"

\* The session state but the active session's metadata.
svarsButActive == <<conv, arch, cum, nextId, bgReg, bgs, nextBg, snd, rot, sends,
                    manuals, nextSdk, tally, switchLog, ensureLog>>

\* executeQuery ended with outcome end; sendToAgent's catch and processMessage's
\* catch run to the next await.  The retry without resume first clears the
\* sdkSessionId, in memory and on the active session.
Settle(w, end, resetsAt) ==
  IF end \in {"ok", "interrupted"}
  THEN /\ Resolved(w)
       /\ activeQuery' = 0
       /\ work' = [work EXCEPT ![w] = NoWork]
       /\ UNCHANGED svars
  ELSE IF work[w].resume
  THEN /\ work' = ExecuteQuery(work, w, FALSE)
       /\ activeQuery' = w
       /\ active' = [active EXCEPT !.sdkSessionId = IF active.exists THEN 0 ELSE @]
       /\ UNCHANGED <<qvars, svarsButActive>>
  ELSE IF end = "ratelimit"
  THEN /\ RateLimited(w, resetsAt)
       /\ activeQuery' = 0
       /\ work' = [work EXCEPT ![w] = NoWork]
       /\ UNCHANGED svars
  ELSE /\ Rejected(w)
       /\ activeQuery' = 0
       /\ work' = [work EXCEPT ![w] = NoWork]
       /\ UNCHANGED svars

\* The stream is over: after the result message, or cut short by interrupt().
StreamEnds(w, resetsAt) ==
  /\ work[w].stage = "stream"
  /\ work[w].result \/ work[w].killed
  /\ QueryOutcome(w) # "ratelimit" => resetsAt = 0
  /\ Settle(w, QueryOutcome(w), resetsAt)
  /\ UNCHANGED <<interrupted, stops>>

\* The query throws (the agent process crashed).
StreamThrows(w) ==
  /\ work[w].stage = "stream"
  /\ ~work[w].killed
  /\ Settle(w, "error", 0)
  /\ UNCHANGED <<interrupted, stops>>

\* The units of work an interrupt call finds in flight and without a result.
Stoppable == {w \in Loops : loop[w].pc = "working" /\ ~work[w].result}

\* Mutant of Interrupt: the call also drops the messages still queued.
InterruptDropsQueued ==
  /\ stops < MaxStops
  /\ stops' = stops + 1
  /\ IF activeQuery # 0
     THEN /\ interrupted' = TRUE
          /\ work' = [w \in Loops |->
                       [work[w] EXCEPT !.killed = @ \/ w = activeQuery,
                                       !.stopped = @ \/ w \in Stoppable]]
     ELSE /\ work' = [w \in Loops |-> [work[w] EXCEPT !.stopped = @ \/ w \in Stoppable]]
          /\ UNCHANGED interrupted
  /\ queue' = <<>>
  /\ UNCHANGED <<activeQuery, svars>>
  /\ UNCHANGED <<processing, pausedUntil, resumeTimer, loop, now, ticks, nextMsg,
                 rateLimits, dispatchLog, replayDue>>

\* interrupt(userId) -> interruptAgent(userId).
Interrupt ==
  /\ stops < MaxStops
  /\ stops' = stops + 1
  /\ IF activeQuery # 0
     THEN /\ interrupted' = TRUE
          /\ work' = [w \in Loops |->
                       [work[w] EXCEPT !.killed = @ \/ w = activeQuery,
                                       !.stopped = @ \/ w \in Stoppable]]
     ELSE /\ work' = [w \in Loops |-> [work[w] EXCEPT !.stopped = @ \/ w \in Stoppable]]
          /\ UNCHANGED interrupted
  /\ UNCHANGED <<activeQuery, qvars, svars>>

InitA ==
  /\ activeQuery = 0
  /\ interrupted = FALSE
  /\ work = [w \in Loops |-> NoWork]
  /\ stops = 0

InitS ==
  /\ active = NoSession
  /\ conv = [i \in Sessions |-> <<>>]
  /\ arch = [i \in Sessions |-> NoArchive]
  /\ cum = NoCum
  /\ nextId = 1
  /\ bgReg = 0
  /\ bgs = [b \in Bgs |-> NoBg]
  /\ nextBg = 1
  /\ snd = [s \in Senders |-> IdleSender]
  /\ rot = [o \in Owners |-> FreeRot]
  /\ sends = 0
  /\ manuals = 0
  /\ nextSdk = 1
  /\ tally = [i \in Sessions |-> NoTally]
  /\ switchLog = {}
  /\ ensureLog = {}

Init == InitQ /\ InitS /\ InitA

\* ---------------------------------------------------------- specifications
\* The queue on its own: a unit of work is opaque.
SpecQ == Init /\ [][NextQ]_vars

\* Scheduling the event loop guarantees: an awaited sendToAgent call settles (the
\* premise "each unit of work terminates"), an awaited reply settles, time passes and
\* a due timer's callback runs.
FairQ ==
  /\ \A w \in Loops :
       WF_vars(FinishWork(w) \/ FailWork(w) \/ \E r \in ResetsAtChoices : RateLimitWork(w, r))
  /\ \A w \in Loops : WF_vars(ErrorNotified(w))
  /\ \A w \in Loops : WF_vars(PauseAndScheduleResume(w))
  /\ WF_vars(TickToTimer)
  /\ WF_vars(ResumeTimerFires)

LiveSpecQ == Init /\ [][NextQ]_vars /\ FairQ


\* The rotation engine driven by sendToAgent calls, /new commands and the agent's
\* session_new tool.
NextS ==
  \/ \E s \in Senders : \E timedOut \in BOOLEAN : StartSend(s, timedOut)
  \/ \E s \in Senders : QuerySessionId(s)
  \/ \E s \in Senders : QueryToolSessionNew(s)
  \/ \E s \in Senders : \E res \in Results : QueryResult(s, res)
  \/ \E s \in Senders : QueryFails(s)
  \/ \E s \in Senders : QueryInterrupted(s)
  \/ \E c \in Cmds : NewCommand(c)
  \/ \E o \in Owners : RotSummaryDone(o)
  \/ \E o \in Owners : RotSummaryFail(o)
  \/ \E o \in Owners : RotCondenseDone(o)
  \/ \E o \in Owners : RotCondenseFail(o)
  \/ \E b \in Bgs : BgSummaryDone(b)
  \/ \E b \in Bgs : BgSummaryFail(b)
  \/ \E b \in Bgs : BgCondenseDone(b)
  \/ \E b \in Bgs : BgCondenseFail(b)

SpecS == Init /\ [][NextS]_vars

\* Each summarizer call and each condenser call of a background prep eventually
\* returns or fails.
FairBg ==
  /\ \A b \in Bgs : WF_vars(BgSummaryDone(b) \/ BgSummaryFail(b))
  /\ \A b \in Bgs : WF_vars(BgCondenseDone(b) \/ BgCondenseFail(b))


\* Background preps and rotations that do not overlap: session 1 is archived, session 2
\* is active at the soft threshold, and the only callers are the queue's sendToAgent
\* calls.
InitPrep ==
  /\ InitQ
  /\ InitA
  /\ active = [FreshSession(2) EXCEPT !.sdkSessionId = 2, !.messageCount = 1,
                                      !.totalTurns = 1, !.totalCostUsd = 1,
                                      !.contextTokens = 85, !.contextWindowTokens = 100]
  /\ conv = [i \in Sessions |->
              IF i \in {1, 2} THEN <<[role |-> "user", q |-> 0], [role |-> "assistant", q |-> 0]>>
              ELSE <<>>]
  /\ arch = [i \in Sessions |->
              IF i = 1
              THEN [archived |-> TRUE,
                    meta |-> [FreshSession(1) EXCEPT !.sdkSessionId = 1, !.messageCount = 1,
                                !.totalTurns = 1, !.totalCostUsd = 1,
                                !.contextTokens = 50, !.contextWindowTokens = 100],
                    summary |-> OkSummary(1, 2), writes |-> 1]
              ELSE NoArchive]
  /\ cum = NoCum
  /\ nextId = 3
  /\ bgReg = 0
  /\ bgs = [b \in Bgs |-> NoBg]
  /\ nextBg = 1
  /\ snd = [s \in Senders |-> IdleSender]
  /\ rot = [o \in Owners |-> FreeRot]
  /\ sends = 0
  /\ manuals = 0
  /\ nextSdk = 3
  /\ tally = [i \in Sessions |-> IF i \in {1, 2} THEN [n |-> 1, turns |-> 1, cost |-> 1]
                                 ELSE NoTally]
  /\ switchLog = {}
  /\ ensureLog = {}

\* The queue dispatches one message at a time: no sendToAgent call is in flight when
\* the next one starts.
NoSendInFlight == \A r \in Senders : snd[r].pc = "idle"

NextPrep ==
  \/ \E s \in Senders : \E timedOut \in BOOLEAN : NoSendInFlight /\ StartSend(s, timedOut)
  \/ \E s \in Senders : \E res \in Results : QueryResult(s, res)
  \/ \E o \in Owners : RotSummaryDone(o)
  \/ \E o \in Owners : RotCondenseDone(o)
  \/ \E b \in Bgs : BgSummaryDone(b)
  \/ \E b \in Bgs : BgSummaryFail(b)
  \/ \E b \in Bgs : BgCondenseDone(b)
  \/ \E b \in Bgs : BgCondenseFail(b)

SpecPrep == InitPrep /\ [][NextPrep]_vars

LiveSpecPrep == InitPrep /\ [][NextPrep]_vars /\ FairBg

\* Carryover extraction on its own: the instant switch applied to a session with K
\* completed messages whose background prep, triggered at message count T, is ready.
MaxPairs == 4
Contents == 1..2
\* The log of K user/assistant pairs whose k-th pair has content c[k].
PairLog(K, c) ==
  [j \in 1..(2 * K) |-> [role |-> IF j % 2 = 1 THEN "user" ELSE "assistant",
                         q |-> c[(j + 1) \div 2]]]

InitCarry ==
  /\ InitQ
  /\ InitA
  /\ \E K \in 0..MaxPairs : \E T \in 0..K : \E c \in [1..K -> Contents] :
       /\ active = [FreshSession(1) EXCEPT !.sdkSessionId = 1, !.messageCount = K,
                                           !.totalTurns = K, !.totalCostUsd = K,
                                           !.contextTokens = 85,
                                           !.contextWindowTokens = 100]
       /\ conv = [i \in Sessions |-> IF i = 1 THEN PairLog(K, c) ELSE <<>>]
       /\ bgs = [b \in Bgs |->
                  IF b = 1
                  THEN [NoBg EXCEPT !.pc = "done", !.triggerMessageCount = T,
                                    !.oldLocalId = 1, !.summary = OkSummary(1, 2 * T),
                                    !.snapLen = 2 * T]
                  ELSE NoBg]
       /\ tally = [i \in Sessions |->
                    IF i = 1 THEN [n |-> K, turns |-> K, cost |-> K] ELSE NoTally]
  /\ arch = [i \in Sessions |-> NoArchive]
  /\ cum = NoCum
  /\ nextId = 2
  /\ bgReg = 1
  /\ nextBg = 2
  /\ snd = [s \in Senders |-> IdleSender]
  /\ rot = [o \in Owners |-> FreeRot]
  /\ sends = 0
  /\ manuals = 0
  /\ nextSdk = 2
  /\ switchLog = {}
  /\ ensureLog = {}

\* The next message arrives: ensureActiveSession finds the prep ready and switches.
NextCarry == \E s \in Senders : StartSend(s, FALSE)

SpecCarry == InitCarry /\ [][NextCarry]_vars

\* The queue with its units of work in detail and the /stop command, next to a
\* background prep that is running when the first message arrives.
InitD ==
  /\ InitQ
  /\ InitA
  /\ active = [FreshSession(1) EXCEPT !.sdkSessionId = 1, !.messageCount = 1,
                                      !.totalTurns = 1, !.totalCostUsd = 1,
                                      !.contextTokens = 85, !.contextWindowTokens = 100]
  /\ conv = [i \in Sessions |-> IF i = 1 THEN PairLog(1, <<1>>) ELSE <<>>]
  /\ bgs = [b \in Bgs |->
             IF b = 1
             THEN [NoBg EXCEPT !.pc = "summ", !.triggerMessageCount = 1, !.oldLocalId = 1,
                               !.snapLen = 2, !.meta = active]
             ELSE NoBg]
  /\ tally = [i \in Sessions |-> IF i = 1 THEN [n |-> 1, turns |-> 1, cost |-> 1] ELSE NoTally]
  /\ arch = [i \in Sessions |-> NoArchive]
  /\ cum = NoCum
  /\ nextId = 2
  /\ bgReg = 1
  /\ nextBg = 2
  /\ snd = [s \in Senders |-> IdleSender]
  /\ rot = [o \in Owners |-> FreeRot]
  /\ sends = 0
  /\ manuals = 0
  /\ nextSdk = 2
  /\ switchLog = {}
  /\ ensureLog = {}

NextD ==
  \/ \E w \in Loops : \E waits, resume \in BOOLEAN : SendToAgent(w, waits, resume)
  \/ Settled /\ Enqueue
  \/ Settled /\ \E w \in Loops : EnsureReturns(w)
  \/ Settled /\ \E w \in Loops : StreamRateLimit(w)
  \/ Settled /\ \E w \in Loops : StreamResult(w)
  \/ Settled /\ \E w \in Loops : \E r \in ResetsAtChoices : StreamEnds(w, r)
  \/ Settled /\ \E w \in Loops : StreamThrows(w)
  \/ Settled /\ Interrupt
  \/ Settled /\ \E w \in Loops : ErrorNotified(w)
  \/ Settled /\ \E w \in Loops : PauseAndScheduleResume(w)
  \/ Settled /\ ResumeTimerFires
  \/ Settled /\ TickToTimer
  \/ Settled /\ \E b \in Bgs : BgSummaryDone(b)
  \/ Settled /\ \E b \in Bgs : BgSummaryFail(b)

SpecD == InitD /\ [][NextD]_vars

\* ------------------------------------------------------------------ claims

\* C2: at most one unit of work (one sendToAgent call) is in flight for the user.
C2_AtMostOneInFlight == Cardinality(InFlight) <= 1

\* C4: messages are dispatched in enqueue order (ids follow enqueue order; a replay
\* repeats its id), and the message put back by a rate limit is the next one dispatched.
C4_FifoWithReplay ==
  /\ [](\A i, j \in 1..Len(dispatchLog) : i < j => dispatchLog[i] <= dispatchLog[j])
  /\ [][(dispatchLog' # dispatchLog /\ replayDue # 0)
          => dispatchLog'[Len(dispatchLog')] = replayDue]_vars

InQueue(m) == \E i \in 1..Len(queue) : queue[i] = m
LiveLoops == {w \in Loops : loop[w].pc # "free"}

\* C5: a non-empty queue always has a processing loop running or a resume timer
\* pending; the resume timer's callback dispatches the head of a non-empty queue by
\* itself; and every queued message eventually leaves the queue for the agent.
C5_EveryMessageDispatched ==
  /\ [](queue # <<>> => (LiveLoops # {} \/ resumeTimer.set))
  /\ [][(resumeTimer.set /\ ~resumeTimer'.set /\ queue # <<>>)
          => dispatchLog' = Append(dispatchLog, Head(queue))]_vars
  /\ \A m \in 1..MaxMsgs : InQueue(m) ~> ~InQueue(m)

\* C5 witness: a message waits in a paused queue with no loop running, and only the
\* resume timer is left to restart processing.
C5_Witness == queue # <<>> /\ LiveLoops = {} /\ resumeTimer.set /\ pausedUntil.set

\* C6: while the resume timer of a pause is pending, enqueue appends to the tail and
\* dispatches nothing.
C6_EnqueueWhilePaused ==
  [][(nextMsg' # nextMsg /\ resumeTimer.set)
       => (queue' = Append(queue, nextMsg) /\ dispatchLog' = dispatchLog)]_vars

\* ---------------------------------------------------------- session claims
\* The five figures updateSessionAfterQuery maintains.
Figures(m) ==
  <<m.messageCount, m.totalTurns, m.totalCostUsd, m.contextTokens, m.contextWindowTokens>>
\* Sender s's query ends with a result in this step.
Completes(s) == snd[s].pc = "query" /\ snd'[s].pc = "idle" /\ conv' # conv
\* Session i holds entries appended when it was no longer the active session.
LateEntries(i) == Len(conv[i]) > 2 * tally[i].n

ArchivedStillActive == active.exists /\ arch[active.localId].archived
C3_SwapAtomic ==
  [][(sends' # sends \/ conv' # conv) => ~ArchivedStillActive]_vars

C8_GuardedUpdate ==
  /\ [][\A s \in Senders :
          (Completes(s) /\ active.exists /\ active.localId # snd[s].localId)
            => Figures(active') = Figures(active)]_vars
  /\ [][(active.exists /\ active'.localId = active.localId
           /\ Figures(active') # Figures(active))
          => \E s \in Senders : Completes(s) /\ snd[s].localId = active.localId]_vars
C8_Witness ==
  \E i \in Sessions :
    /\ active.exists /\ active.localId # i /\ LateEntries(i)
    /\ Figures(active) = Figures(NoSession)

\* C9: for every session, active or archived, messageCount is the number of queries
\* that completed on it while it was active, and totalTurns and totalCostUsd are
\* the sums of what those queries reported.
Recorded(i) ==
  IF active.exists /\ active.localId = i THEN active ELSE arch[i].meta
C9_CountersMatchCompletedQueries ==
  \A i \in Sessions :
    ((active.exists /\ active.localId = i) \/ arch[i].archived)
      => /\ Recorded(i).messageCount = tally[i].n
         /\ Recorded(i).totalTurns = tally[i].turns
         /\ Recorded(i).totalCostUsd = tally[i].cost

C11_CarryoverIsLogSuffix ==
  [][\A e \in switchLog' \ switchLog :
       e.outcome = "switched" =>
         LET log == conv[bgs[e.bg].oldLocalId]
             T == bgs[e.bg].triggerMessageCount
             K == Len(log) \div 2
             co == active'.carryover
         IN  /\ Len(log) = 2 * K
             /\ T <= K
             /\ Len(co) = 2 * (K - T)
             /\ \A j \in 1..Len(co) :
                  /\ co[j] = log[2 * T + j]
                  /\ co[j].role \in {"user", "assistant"}]_vars
C11_Witness ==
  \E e \in switchLog :
    /\ e.outcome = "switched"
    /\ bgs[e.bg].triggerMessageCount >= 1
    /\ Len(active.carryover) >= 4

\* C12: consolidation is idempotent. In every reachable state of the store, after one
\* successful call of consolidateOldSessions a second call on the same archived
\* sessions does not call the condenser and leaves the cumulative summary's
\* sessionCount and text as the first call left them.
C12_ConsolidationIdempotent ==
  LET once == ConsolidateOldSessions(World)
      again == ConsolidatePrefix(once)
  IN  /\ ~again.wait
      /\ again.W.cum = once.cum
\* A state where the first call does merge a summary through the condenser.
C12_Witness ==
  /\ ConsolidatePrefix(World).wait
  /\ ConsolidateOldSessions(World).cum.sessionCount >= 1
  /\ ConsolidateOldSessions(World).cum.text # {}

\* C13: the cumulative summary's sessionCount never decreases.
C13_SessionCountMonotone ==
  [][cum.exists => (cum'.exists /\ cum'.sessionCount >= cum.sessionCount)]_vars

\* The active session has no sdkSessionId (or there is none): rotateSession skips
\* its summary-and-archive block.
EmptyActive == ~active.exists \/ active.sdkSessionId = 0
\* No call of the summarizer starts in this step.
NoSummarizerCall ==
  /\ \A o \in Owners : rot'[o].pc = "summ" => rot[o].pc = "summ"
  /\ \A b \in Bgs : bgs'[b].pc = "summ" => bgs[b].pc = "summ"
\* A rotateSession call that found no sdkSessionId and went on to await the condenser.
EmptyRotationWaiting(o) ==
  rot[o].pc = "cons" /\ (~rot[o].cur.exists \/ rot[o].cur.sdkSessionId = 0)
\* The rotation's last effect: a newly created session is the active one.
NewSessionActive == active' = FreshSession(nextId) /\ nextId' = nextId + 1

\* C14 (amended): a rotation of an active session without sdkSessionId, from its
\* start (a /new command, or a timeout rotation resumed after awaiting a prep) to
\* its end, never calls the summarizer and writes no archived metadata; when it
\* ends, a newly created session is the active one. (It may still consolidate
\* already archived sessions into the cumulative summary.)
C14_EmptyRotationArchivesNothing ==
  /\ [][(manuals' # manuals /\ EmptyActive)
          => /\ arch' = arch
             /\ NoSummarizerCall
             /\ (\E c \in Cmds : rot'[c].pc = "cons") \/ NewSessionActive]_vars
  /\ [][\A o \in Owners :
          (EmptyRotationWaiting(o) /\ rot'[o].pc # "cons")
            => (arch' = arch /\ NoSummarizerCall /\ NewSessionActive)]_vars
\* C14 (as stated): in addition the rotation has no other effect on the store: the
\* cumulative summary is left as it was.
C14_EmptyRotationOnlyCreates ==
  /\ C14_EmptyRotationArchivesNothing
  /\ [][(manuals' # manuals /\ EmptyActive) => cum' = cum]_vars
  /\ [][\A o \in Owners :
          (EmptyRotationWaiting(o) /\ rot'[o].pc # "cons") => cum' = cum]_vars
\* An empty rotation has completed while archived sessions exist.
C14_Witness ==
  /\ active.exists /\ ~arch[active.localId].archived
  /\ \E i \in Sessions : i < active.localId /\ ~arch[i].archived /\ conv[i] = <<>>
  /\ \E i \in Sessions : arch[i].archived

\* The BackgroundRotation records in bgRotations for the user.
Registered == {b \in Bgs : bgReg = b}
\* A rotateSession call starts in this step.
RotationStarts ==
  \/ manuals' # manuals
  \/ \E o \in Owners : rot[o].pc = "free" /\ rot'[o].pc # "free"
  \/ \E s \in Senders : /\ snd[s].pc \in {"idle", "awaitBgTimeout"}
                        /\ snd'[s].pc # "awaitBgTimeout"
                        /\ snd'[s].path \in {"timeout", "forceSync"}

\* C15: there is one active-session document and at most one registered
\* BackgroundRotation record; a prep is started only when no record is registered
\* and is registered at once; an executed swap and the start of any rotateSession
\* call leave no record registered; a record is removed by nothing else than a
\* performInstantSwitch or rotateSession call; and no record stays registered
\* once a rotation has replaced the session it was made for.
C15_OneSessionOneRecord ==
  /\ [](/\ Cardinality(Registered) <= 1
        /\ active.exists => active.localId \in Sessions
        /\ \A b \in Registered : bgs[b].pc # "none")
  /\ [][nextBg' # nextBg => (bgReg = 0 /\ nextBg' = nextBg + 1 /\ bgReg' = nextBg)]_vars
  /\ [][(\E e \in switchLog' \ switchLog : e.outcome = "switched") => bgReg' = 0]_vars
  /\ [][RotationStarts => bgReg' = 0]_vars
  /\ [][(bgReg # 0 /\ bgReg' # bgReg)
          => (switchLog' # switchLog \/ RotationStarts)]_vars
  /\ [](\A b \in Registered : active.exists /\ bgs[b].oldLocalId = active.localId)

\* C16: each session is archived at most once: its archived metadata is written at
\* most once and, once written, never changes.
C16_ArchivedAtMostOnce ==
  /\ [](\A i \in Sessions : arch[i].writes <= 1)
  /\ [][\A i \in Sessions : arch[i].archived => arch'[i] = arch[i]]_vars

\* An interrupt call is the step that counts one more stop.
InterruptStep == stops' # stops

\* C17: an interrupt call leaves the queue's contents, the pause entry and the resume
\* timer as they were and changes nothing of a running background prep or of any other
\* session state; when no unit of work is in flight it changes nothing at all.
C17_InterruptFrame ==
  [][InterruptStep =>
       /\ UNCHANGED <<qvars, svars>>
       /\ InFlight = {} => UNCHANGED <<activeQuery, interrupted, work>>]_vars

\* C17 witness: an interrupt has cut a query short while a message is queued, the
\* resume timer is pending and the background prep is still running.
C17_Witness ==
  /\ stops > 0
  /\ \E w \in InFlight : work[w].killed
  /\ queue # <<>>
  /\ resumeTimer.set
  /\ bgReg = 1 /\ bgs[1].pc = "summ"

\* The step in which the unit of work of slot w ends: sendToAgent settles.
UnitEnds(w) == work[w].stage # "none" /\ work'[w].stage = "none"
\* The step in which sendToAgent starts the query of slot w again, without resume.
Retried(w) == work[w].stage = "stream" /\ work'[w].stage = "stream" /\ work[w].resume
              /\ ~work'[w].resume
\* processNext goes on from slot w to the next queued message.
GoesOn(w) ==
  /\ loop'[w].pc \notin {"errNotify", "rlNotify"}
  /\ (queue # <<>> /\ ~pausedUntil.set) => dispatchLog' = Append(dispatchLog, Head(queue))

\* C18: a unit of work that was in flight, without a result yet, when interrupt was
\* called is not retried and ends with the interrupted outcome: no apology or
\* rate-limit notice is sent for it and the loop goes on to the next queued message.
C18_InterruptedOutcome ==
  [][\A w \in Loops : work[w].stopped =>
       /\ ~Retried(w)
       /\ UnitEnds(w) => (QueryOutcome(w) = "interrupted" /\ ~work[w].late /\ GoesOn(w))]_vars

Range(q) == {q[i] : i \in 1..Len(q)}

\* The step in which sendToAgent rejects, for the unit of work of slot w, with an
\* error that is neither an interruption nor a rate limit.
Fails(w) ==
  /\ UnitEnds(w)
  /\ \/ StreamThrows(w)
     \/ \E r \in ResetsAtChoices \union {0} : StreamEnds(w, r) /\ QueryOutcome(w) = "error"

\* The step in which the awaited apology reply of slot w settles, resolved or rejected.
ApologySettles(w) == loop[w].pc = "errNotify" /\ loop'[w] # loop[w]

\* C19: a unit of work that fails with an error other than an interruption or a rate
\* limit sends the apology reply once: the reply is sent in the failing step, the message
\* is not put back in the queue, and when the reply settles, resolved or rejected, the
\* message is neither queued nor being worked on or apologised for again, and the loop
\* goes on to the next queued message.
C19_FailureApologisedOnce ==
  [][\A w \in Loops :
       /\ Fails(w) => /\ loop' = [loop EXCEPT ![w].pc = "errNotify"]
                      /\ queue' = queue
       /\ ApologySettles(w) =>
            /\ loop[w].msg \notin Range(queue')
            /\ \A v \in Loops : loop'[v].pc \in {"working", "errNotify"}
                                    => loop'[v].msg # loop[w].msg
            /\ (queue # <<>> /\ ~pausedUntil.set) =>
                 dispatchLog' = Append(dispatchLog, Head(queue))]_vars

\* C19 witness: the apology reply of a failed unit of work is awaited while another
\* message is queued and the queue is not paused.
C19_Witness ==
  \E w \in Loops : loop[w].pc = "errNotify" /\ queue # <<>> /\ ~pausedUntil.set

\* The caller of rotation o was not rejected: a sendToAgent call goes on.
CallerGoesOn(o) == ~IsCmd(o) => snd'[o].pc # "idle"
\* The archived metadata of the session rotation o read carries the fallback summary.
FallbackArchived(o, a) ==
  a[rot[o].cur.localId] = [archived |-> TRUE, meta |-> rot[o].cur,
                           summary |-> FallbackSummary(rot[o].cur),
                           writes |-> a[rot[o].cur.localId].writes]
\* The instant switches made in this step with a prep whose summary is the fallback.
FallbackSwitches ==
  {e \in switchLog' \ switchLog : e.outcome = "switched" /\ bgs'[e.bg].summary[1] = "failed"}

\* C20: a failure of the summarizer does not abort the rotation. In rotateSession the
\* session is archived with the fallback summary in the failing step, the rotation goes
\* on to consolidation and ends with a newly created active session, and its caller is
\* not rejected. In the background prep the task ends ready with the fallback summary,
\* and the instant switch that uses it archives the old session with that summary and
\* leaves a session created in that step active.
C20_SummarizerFailureCompletes ==
  /\ [][\A o \in Owners : RotSummaryFail(o) =>
          /\ FallbackArchived(o, arch')
          /\ rot'[o].pc = "cons" \/ NewSessionActive
          /\ CallerGoesOn(o)]_vars
  /\ [][\A o \in Owners :
          (rot[o].pc = "cons" /\ rot[o].cur.exists /\ FallbackArchived(o, arch)
             /\ rot'[o].pc # "cons")
            => (NewSessionActive /\ arch' = arch /\ CallerGoesOn(o))]_vars
  /\ [][\A b \in Bgs : BgSummaryFail(b) =>
          /\ bgs'[b].pc = "done"
          /\ bgs'[b].summary = FallbackSummary(bgs[b].meta)
          /\ \A s \in Senders : snd[s].pc # "idle" => snd'[s].pc # "idle"]_vars
  /\ [][\A e \in FallbackSwitches :
          /\ arch'[bgs[e.bg].oldLocalId].archived
          /\ arch'[bgs[e.bg].oldLocalId].summary = bgs'[e.bg].summary
          /\ active'.exists /\ active'.localId >= nextId /\ nextId' > active'.localId]_vars

\* C20 witness: one session was archived with the fallback summary by an instant
\* switch, another one by rotateSession, and a newer session is active.
C20_Witness ==
  \E e \in switchLog : \E i \in Sessions :
    /\ e.outcome = "switched" /\ bgs[e.bg].summary[1] = "failed"
    /\ arch[bgs[e.bg].oldLocalId].summary[1] = "failed"
    /\ i # bgs[e.bg].oldLocalId
    /\ arch[i].archived /\ arch[i].summary[1] = "failed"
    /\ active.exists /\ ~arch[active.localId].archived

\* The queries in flight that were dispatched on session i.
QueriesOn(i) == {s \in Senders : snd[s].pc \in {"query", "toolRotate"} /\ snd[s].localId = i}

\* C21: the active session's sdkSessionId is only ever set by a query that was
\* dispatched on that session, so the active session never carries the sdkSessionId of
\* an archived session and the next query does not resume the archived session.
C21_NewSessionNotResumed ==
  /\ [](\A i \in Sessions :
          (arch[i].archived /\ arch[i].meta.sdkSessionId # 0 /\ active.exists
             /\ active.localId # i)
            => active.sdkSessionId # arch[i].meta.sdkSessionId)
  /\ [][(active'.exists /\ active'.sdkSessionId # 0
           /\ (active'.sdkSessionId # active.sdkSessionId \/ active'.localId # active.localId))
          => \E s \in QueriesOn(active'.localId) : snd[s].sdkOut = active'.sdkSessionId]_vars

\* A query dispatched by sendToAgent is in progress.
QueryInFlight == \E s \in Senders : snd[s].pc \in {"query", "toolRotate"}

\* C22: no rotateSession call runs while a query of the user is in progress: none is
\* waiting for its summarizer or condenser then, and none starts then.
C22_SyncRotationNeverOverlapsQuery ==
  /\ [](QueryInFlight => \A o \in Owners : rot[o].pc = "free")
  /\ [][QueryInFlight => ~RotationStarts]_vars

\* The active session is one the context-ratio rules apply to.
RatioApplies ==
  active.exists /\ active.sdkSessionId # 0 /\ active.contextWindowTokens > 0
\* The registered BackgroundRotation record is in state preparing.
Preparing(reg, b) == reg # 0 /\ b[reg].pc \in {"summ", "cons"}
\* The sendToAgent call of s got the session that was active, with rotated = false.
SameSessionReturned(s) ==
  /\ active' = active /\ arch' = arch /\ nextId' = nextId
  /\ snd'[s].pc = "query" /\ snd'[s].localId = active.localId
  /\ snd'[s].resume = active.sdkSessionId

\* C23: a call of ensureActiveSession that is not timed out and finds the ratio at or
\* above the soft and below the force threshold with no record registered, registers a
\* record in state preparing for the active session and returns that session with
\* rotated = false in the same step; a call that finds a record preparing and the ratio
\* below the force threshold returns the active session and leaves the record alone.
C23_SoftThresholdStartsPrep ==
  /\ [][\A s \in Senders :
          (StartSend(s, FALSE) /\ RatioApplies /\ bgReg = 0
             /\ AtOrAbove(active, rotationContextRatioPct)
             /\ ~AtOrAbove(active, rotationForceRatioPct))
            => /\ Preparing(bgReg', bgs')
               /\ bgs'[bgReg'].oldLocalId = active.localId
               /\ bgs[bgReg'].pc = "none"
               /\ SameSessionReturned(s)]_vars
  /\ [][\A s \in Senders :
          (StartSend(s, FALSE) /\ RatioApplies /\ Preparing(bgReg, bgs)
             /\ ~AtOrAbove(active, rotationForceRatioPct))
            => (bgReg' = bgReg /\ bgs' = bgs /\ SameSessionReturned(s))]_vars

\* C23 witness: a later call has returned the session whose prep is still preparing.
C23_Witness ==
  \E s \in Senders :
    /\ Preparing(bgReg, bgs)
    /\ snd[s].pc = "query" /\ snd[s].path = "preparing"
    /\ snd[s].localId = bgs[bgReg].oldLocalId
    /\ active.exists /\ active.localId = snd[s].localId

\* The registered record is ready and was prepared for the active session.
ReadyForActive ==
  bgReg # 0 /\ bgs[bgReg].pc = "done" /\ bgs[bgReg].oldLocalId = active.localId

\* C24: a call of ensureActiveSession that finds a ready record for the active session
\* switches in that same step: it starts no summarizer or condenser call, archives the
\* old session with the record's summary, creates the new session with the carryover
\* attached, returns it as a rotation (no resume id), and removes the record.
C24_ReadyRecordSwitchesInstantly ==
  [][\A s \in Senders :
       (StartSend(s, FALSE) /\ RatioApplies /\ ReadyForActive)
         => /\ rot' = rot /\ bgs' = bgs /\ cum' = cum
            /\ arch'[active.localId].archived
            /\ arch'[active.localId].meta = active
            /\ arch'[active.localId].summary = bgs[bgReg].summary
            /\ \A i \in Sessions \ {active.localId} : arch'[i] = arch[i]
            /\ active' = [FreshSession(nextId) EXCEPT !.carryover =
                 Carryover(conv[active.localId], bgs[bgReg].triggerMessageCount)]
            /\ nextId' = nextId + 1
            /\ snd'[s].pc = "query" /\ snd'[s].localId = nextId /\ snd'[s].resume = 0
            /\ snd'[s].path = "instant"
            /\ bgReg' = 0]_vars

\* C24 witness: an instant switch has attached a non-empty carryover to the session
\* the caller now queries on.
C24_Witness ==
  \E s \in Senders :
    /\ snd[s].pc = "query" /\ snd[s].path = "instant"
    /\ active.exists /\ active.localId = snd[s].localId
    /\ active.carryover # <<>> /\ bgReg = 0
    /\ \E e \in switchLog : e.outcome = "switched" /\ ~e.stale

\* The ensureActiveSession call of s, made on a timed-out session, returns in this step.
TimeoutCallReturns(s) ==
  /\ snd[s].pc \in {"idle", "awaitBgTimeout", "rotating"}
  /\ snd'[s].pc = "query" /\ snd'[s].path = "timeout"

\* C25: when a call of ensureActiveSession on a timed-out session returns, it has
\* archived a session, the session it returns is newly created, active and not resumed,
\* and no BackgroundRotation record is registered.
C25_TimeoutTakesPriority ==
  [][\A s \in Senders :
       TimeoutCallReturns(s)
         => /\ snd'[s].archives = 1 /\ snd'[s].creates = 1
            /\ active'.exists /\ active'.localId = snd'[s].localId
            /\ active'.sdkSessionId = 0 /\ snd'[s].resume = 0
            /\ bgReg' = 0]_vars

\* An ensureActiveSession call that neither rotates nor prepares a rotation.
NothingRotates ==
  /\ arch' = arch /\ cum' = cum /\ rot' = rot
  /\ bgs' = bgs /\ bgReg' = bgReg /\ ensureLog' = ensureLog

\* C26: a call of ensureActiveSession on an active session without sdkSessionId, timed
\* out or not, returns that session with rotated = false and starts no rotation and no
\* background prep; a call that finds no active session creates one and returns it with
\* rotated = false.
C26_FreshSessionNeverRotated ==
  [][\A s \in Senders : \A timedOut \in BOOLEAN :
       StartSend(s, timedOut) =>
         /\ (active.exists /\ active.sdkSessionId = 0)
              => /\ NothingRotates
                 /\ active' = active /\ nextId' = nextId
                 /\ snd'[s].pc = "query" /\ snd'[s].localId = active.localId
                 /\ snd'[s].resume = 0
         /\ ~active.exists
              => /\ NothingRotates
                 /\ active' = FreshSession(nextId) /\ nextId' = nextId + 1
                 /\ snd'[s].pc = "query" /\ snd'[s].localId = nextId
                 /\ snd'[s].resume = 0]_vars

\* C26 witness: a call has returned a session without sdkSessionId that an earlier
\* rotation had created.
C26_Witness ==
  \E s \in Senders :
    /\ snd[s].pc = "query" /\ snd[s].path = "fresh"
    /\ active.exists /\ active.localId = snd[s].localId /\ active.sdkSessionId = 0
    /\ \E i \in Sessions : arch[i].archived

\* The rotateSession call of o, made with reason manual, returns in this step after
\* having waited for its summary or for the condenser.
ManualRotationReturns(o) ==
  rot[o].reason = "manual" /\ rot[o].pc # "free" /\ rot'[o].pc = "free"

\* C27: when a manual rotation returns, no record is registered whose oldLocalId is the
\* session that the rotation archived.
C27_ManualRotationCancelsPrep ==
  [][\A o \in Owners :
       (ManualRotationReturns(o) /\ rot[o].cur.exists /\ rot[o].cur.sdkSessionId # 0)
         => ~(bgReg' # 0 /\ bgs'[bgReg'].oldLocalId = rot[o].cur.localId)]_vars

\* The sessions the model may still create are fewer than the callers that the end of
\* prep b releases: the behaviour has reached the bound MaxSessions.
OutOfSessions(b) == nextId + Len(bgs[b].waiters) > MaxSessions + 1
\* The ensureActiveSession call of s awaits the promise of a background prep.
AwaitsPrep(s) == snd[s].pc \in {"awaitBgTimeout", "awaitBgForce"}

\* C28: a started background prep eventually reaches state ready, whether its
\* summarizer and condenser calls return or fail, and a caller awaiting its promise is
\* eventually released (in both cases up to the bound on sessions).
C28_PrepEventuallyReady ==
  /\ \A b \in Bgs :
       (bgs[b].pc \in {"summ", "cons"}) ~> (bgs[b].pc = "done" \/ OutOfSessions(b))
  /\ \A s \in Senders :
       AwaitsPrep(s) ~> (~AwaitsPrep(s) \/ OutOfSessions(snd[s].bg))

\* C28 witness: a prep whose summarizer failed is ready with the fallback summary and
\* has released the caller that awaited it at the force threshold.
C28_Witness ==
  \E b \in Bgs : \E s \in Senders :
    /\ bgs[b].pc = "done" /\ bgs[b].summary = FallbackSummary(bgs[b].meta)
    /\ snd[s].pc = "query" /\ snd[s].path = "forceWait"
    /\ \E e \in switchLog : e.bg = b

\* sessionCount of the cumulative summary, 0 when the document does not exist.
CoveredCount == IF cum.exists THEN cum.sessionCount ELSE 0
\* The archived sessions beyond the recency window.
BeyondWindow == Max(Cardinality({i \in Sessions : arch[i].archived}) - maxRecentSessions, 0)
\* An instant switch is executed in this step.
InstantSwitchCompletes == \E e \in switchLog' \ switchLog : e.outcome = "switched"
\* A rotateSession call returns in this step and its condenser call, if any, succeeded.
SyncRotationCompletes ==
  \E o \in Owners :
    /\ rot[o].pc # "free" /\ rot'[o].pc = "free"
    /\ RotSummaryDone(o) \/ RotSummaryFail(o) \/ RotCondenseDone(o)

\* C29: when a rotation completes, by an instant switch or by a rotateSession call
\* whose condenser call succeeded, the cumulative summary's sessionCount equals the
\* number of archived sessions beyond the recency window.
C29_RotationLeavesWindowCovered ==
  [][(InstantSwitchCompletes \/ SyncRotationCompletes)
       => CoveredCount' = BeyondWindow']_vars

\* The archived sessions beyond the recency window whose summary can be merged.
MergeableOld ==
  LET archived == {i \in Sessions : arch[i].archived}
  IN  {i \in archived : /\ NewerIn(archived, i) >= maxRecentSessions
                        /\ arch[i].summary[1] \in {"ok", "empty"}}

C31_CarryoverOnlyBeforeFirstQuery ==
  /\ [](active.exists /\ active.carryover # <<>> => active.messageCount = 0)
  /\ [][\A s \in Senders : \A res \in Results :
          (QueryResult(s, res) /\ active.exists /\ snd[s].localId = active.localId)
            => (active'.carryover = <<>> /\ active'.messageCount > 0)]_vars
  /\ [][(active.exists /\ active.carryover = <<>> /\ active'.exists
           /\ active'.localId = active.localId)
          => active'.carryover = <<>>]_vars

\* C31 witness: the first query on a session created by an instant switch is in flight
\* and the session still has its carryover.
C31_Witness ==
  \E s \in Senders :
    /\ snd[s].pc = "query" /\ active.exists /\ snd[s].localId = active.localId
    /\ active.carryover # <<>> /\ active.messageCount = 0

\* C32: a sendToAgent call issues at most two queries; the second is issued only by
\* the failure of a first query that was resuming, it does not resume, the active
\* session's sdkSessionId is cleared in the step that issues it, and when the second
\* query fails the call ends.
C32_OneRetryWithoutResume ==
  /\ [](\A s \in Senders : snd[s].attempt <= 2 /\ (snd[s].attempt = 2 => snd[s].resume = 0))
  /\ [][\A s \in Senders :
          (snd'[s].attempt = 2 /\ snd[s].attempt # 2)
            => /\ QueryFails(s)
               /\ snd[s].attempt = 1 /\ snd[s].resume # 0
               /\ snd'[s].pc = "query" /\ snd'[s].resume = 0
               /\ active'.exists => active'.sdkSessionId = 0]_vars
  /\ [][\A s \in Senders :
          (QueryFails(s) /\ (snd[s].attempt = 2 \/ snd[s].resume = 0))
            => snd'[s] = IdleSender]_vars

\* C32 witness: the second query of a call is in flight, without resume, and the
\* active session has no sdkSessionId.
C32_Witness ==
  \E s \in Senders :
    /\ snd[s].pc = "query" /\ snd[s].attempt = 2 /\ snd[s].resume = 0
    /\ active.exists /\ active.localId = snd[s].localId /\ active.sdkSessionId = 0
    /\ active.messageCount > 0

\* A message is dispatched to the agent in this step: processing starts or goes on.
Dispatches == dispatchLog' # dispatchLog

\* C33: the pause deadline is the reported reset time, or the default wait after the
\* failure; pauseAndScheduleResume records it and arms the one timer no earlier than
\* it; a pending timer is removed only by firing, it fires no earlier than the deadline
\* and then dispatches the message the pause put back; and while it is pending nothing
\* else dispatches a message, so that processing is started once per pause, by the
\* timer.
C33_ResumeOncePerPause ==
  /\ [][\A w \in Loops : \A r \in ResetsAtChoices :
          RateLimitWork(w, r)
            => loop'[w].resumeAt = IF r # 0 THEN r ELSE now + DEFAULT_RATE_LIMIT_WAIT_MS]_vars
  /\ [][\A w \in Loops :
          PauseAndScheduleResume(w)
            => /\ pausedUntil' = [set |-> TRUE, at |-> loop[w].resumeAt]
               /\ resumeTimer'.set /\ resumeTimer'.fireAt >= loop[w].resumeAt]_vars
  /\ [][(resumeTimer.set /\ resumeTimer' # resumeTimer) => ResumeTimerFires]_vars
  /\ [][ResumeTimerFires
          => (now >= resumeTimer.fireAt /\ dispatchLog' = Append(dispatchLog, resumeTimer.msg))]_vars
  /\ [][(resumeTimer.set /\ Dispatches) => ResumeTimerFires]_vars

\* The active session has recorded history.
HasHistory == active.exists /\ (active.messageCount > 0 \/ conv[active.localId] # <<>>)
\* The active session is replaced in this step.
Replaced == active.exists /\ (~active'.exists \/ active'.localId # active.localId)

\* C34: whenever an active session with recorded history is replaced, it is archived.
C34_NoHistoryDiscarded ==
  [][(HasHistory /\ Replaced) => arch'[active.localId].archived]_vars

\* The log alternates user and assistant entries, starting with a user entry.
Alternates(log) ==
  \A j \in 1..Len(log) : log[j].role = IF j % 2 = 1 THEN "user" ELSE "assistant"

\* C35: the conversation log of every archived session holds 2 * messageCount entries
\* of its archived metadata, alternating user and assistant.
C35_ArchiveAgreesWithLog ==
  \A i \in Sessions :
    arch[i].archived
      => (Len(conv[i]) = 2 * arch[i].meta.messageCount /\ Alternates(conv[i]))

\* The staleness guard of performInstantSwitch discards a prep's result in this step.
GuardDiscards == \E e \in switchLog' \ switchLog : e.outcome = "discarded"
\* The ensureActiveSession call of s returns in this step.
EnsureReturnsTo(s) == snd[s].pc # "query" /\ snd'[s].pc = "query" /\ snd'[s].attempt = 1

\* C36: every call of ensureActiveSession that reported rotated = true archived one
\* session and created the one it returned; and a call that returns after the guard
\* discarded a prep's result lets the caller resume the sdkSessionId of the session it
\* returns.
C36_RotatedOnlyWhenRotated ==
  /\ [](\A e \in ensureLog : e.archives = 1 /\ e.creates = 1)
  /\ [][\A s \in Senders :
          (EnsureReturnsTo(s) /\ GuardDiscards)
            => snd'[s].resume = active'.sdkSessionId]_vars

\* C37: when the condenser call of a background prep fails, the prep ends ready and
\* keeps the summary the summarizer returned; and an instant switch archives the old
\* session with the fallback summary only if no summarizer summary was stored in the
\* record when its condenser call failed.
C37_FallbackOnlyForSummarizer ==
  [][\A b \in Bgs :
       BgCondenseFail(b)
         => /\ bgs'[b].pc = "done"
            /\ bgs[b].summary[1] \in {"ok", "empty"} => bgs'[b].summary = bgs[b].summary
            /\ \A i \in Sessions :
                 (~arch[i].archived /\ arch'[i].archived /\ i = bgs[b].oldLocalId)
                   => arch'[i].summary = bgs[b].summary]_vars

\* The stream of unit w, which resumes an sdkSessionId, ends after a rate-limit
\* rejection.
RateLimitedWhileResuming(w) ==
  /\ work[w].stage = "stream" /\ work[w].resume
  /\ QueryOutcome(w) = "ratelimit"
  /\ \E r \in ResetsAtChoices : StreamEnds(w, r)

\* C38: a unit of work that hits the rate limit while resuming an sdkSessionId is
\* handed to the queue as it is: no second query is started for it, its message is put
\* back at the head of the queue, and the active session's sdkSessionId is left as it
\* was.
C38_RateLimitNotRetried ==
  [][\A w \in Loops :
       RateLimitedWhileResuming(w)
         => /\ work'[w].stage = "none"
            /\ loop'[w].pc = "rlNotify"
            /\ queue' = <<loop[w].msg>> \o queue
            /\ active'.sdkSessionId = active.sdkSessionId]_vars

\* How many entries of role r the conversation logs hold for message q.
LogEntries(logs, q, r) ==
  Cardinality({ij \in Sessions \X (1..(2 * MaxSends)) :
                 /\ ij[2] <= Len(logs[ij[1]])
                 /\ logs[ij[1]][ij[2]] = [role |-> r, q |-> q]})

\* The figures updateSessionAfterQuery adds to.
Counters(m) == <<m.messageCount, m.totalTurns, m.totalCostUsd>>

\* C39: a sendToAgent call that ends without a result (and the failed first attempt of
\* one that is retried) leaves every conversation log, the active session's
\* messageCount, totalTurns and totalCostUsd and every archive as they were, and its
\* message is in no log; a call that ends with a result records its message once; so
\* no message is ever in the logs more than once.
C39_FailureRecordsNothing ==
  /\ [][\A s \in Senders :
          (QueryInterrupted(s) \/ QueryFails(s))
            => /\ conv' = conv
               /\ arch' = arch
               /\ Counters(active') = Counters(active)
               /\ LogEntries(conv', snd[s].msg, "user") = 0]_vars
  /\ [][\A s \in Senders : \A res \in Results :
          QueryResult(s, res)
            => /\ LogEntries(conv', snd[s].msg, "user") = 1
               /\ LogEntries(conv', snd[s].msg, "assistant") = 1]_vars
  /\ [](\A q \in 1..MaxSends : LogEntries(conv, q, "user") <= 1)

\* C39 witness: a call has ended without a result, nothing of its message is in the
\* logs, and a later call has been recorded.
C39_Witness ==
  /\ \A s \in Senders : snd[s].pc = "idle"
  /\ \E q1, q2 \in 1..sends :
       /\ q1 < q2
       /\ LogEntries(conv, q1, "user") = 0
       /\ LogEntries(conv, q2, "user") = 1

\* The conversation the background prep b read for the summarizer when it started.
Snapshot(b) == SubSeq(conv[bgs[b].oldLocalId], 1, bgs[b].snapLen)

\* The background prep b was started for the session that is active now.
PrepOfActive(b) ==
  bgs[b].pc # "none" /\ active.exists /\ active.localId = bgs[b].oldLocalId

\* C40: the snapshot a background prep read for the summarizer is the first
\* 2 * triggerMessageCount entries of the old session's log, and an instant switch
\* taken in any state attaches a carryover that, appended to the snapshot, is the old
\* session's whole log (nothing lost, nothing twice) and leaves that log as it is; the
\* session an instant switch has just created carries exactly that carryover.
C40_SnapshotAndCarryoverPartition ==
  /\ [](\A b \in Bgs :
          PrepOfActive(b)
            => LET log == conv[active.localId]
                   V == PerformInstantSwitch(World, b)
               IN  /\ bgs[b].snapLen = 2 * bgs[b].triggerMessageCount
                   /\ bgs[b].snapLen <= Len(log)
                   /\ V.ok => /\ Snapshot(b) \o V.active.carryover = log
                              /\ Len(Snapshot(b)) + Len(V.active.carryover) = Len(log)
                              /\ V.conv[bgs[b].oldLocalId] = log)
  /\ [][\A e \in switchLog' \ switchLog :
          (e.outcome = "switched" /\ active'.localId = nextId)
            => /\ Snapshot(e.bg) \o active'.carryover = conv[bgs[e.bg].oldLocalId]
               /\ conv'[bgs[e.bg].oldLocalId] = conv[bgs[e.bg].oldLocalId]]_vars

\* C40 witness: an instant switch has just given the active session a carryover that
\* continues a non-empty snapshot of the old session's log.
C40_Witness ==
  \E e \in switchLog :
    /\ e.outcome = "switched"
    /\ bgs[e.bg].snapLen > 0
    /\ active.exists /\ active.carryover # <<>>
    /\ Snapshot(e.bg) \o active.carryover = conv[bgs[e.bg].oldLocalId]
====
